---- MODULE Spec2Model ----
(***************************************************************************)
(* xkcd-search-service.                                                    *)
(*                                                                         *)
(* The update service: Service.Update, Service.Drop, Service.Stats and     *)
(* Service.Status (update/core/service.go) over the comics and             *)
(* comics_stats tables (update/adapters/db/storage.go), with the xkcd      *)
(* client, the words client and the publisher as the ports they are        *)
(* called through, and its gRPC server.                                    *)
(*                                                                         *)
(* The search service: Search, ISearch, UpdateIndex and ResetIndex         *)
(* (search/core/service.go), the subscriber and the scheduler that call    *)
(* them, and rankedSearch.                                                 *)
(*                                                                         *)
(* The gateway: the concurrency limiter and the rate limiter of the        *)
(* search endpoints, the authenticator and the handlers of the admin       *)
(* endpoints.  words.Norm of the words service.                            *)
(*                                                                         *)
(* A text is a sequence of tokens; an id is a Go int64 within the bounds.  *)
(***************************************************************************)
EXTENDS Integers, Sequences, FiniteSets, TLC

\* ------------------------------------------------------------------ bounds

\* Number of clients that call Update and Drop at the same time.
NumCallers == 2

\* The upstream holds the comics 1..MaxID and the comic TombstoneID.  Of the
\* ids MaxID+1 .. TombstoneID-1 the upstream answers not-found to every
\* fetch: their jobs end in the skip sentinel and leave no trace in the
\* catalog, so the model leaves these jobs out of the enumeration.
MaxID == 2

\* Service.concurrency, the number of workers of one Update (>= 1).
concurrency == 2

\* The id the worker never fetches.
TombstoneID == 404

\* Messages a subscription holds for its callback; one that arrives when
\* the subscription is full is dropped (nats.go: slow consumer).
MaxPending == 1

\* The largest limit a client asks for.
MaxLimit == 2

\* The largest catalog handed to rankedSearch on its own.
MaxRows == 3

\* ConcurrencyLimiter: cap(sem), and the requests that reach GET /api/search.
SearchConcurrency == 2

NumRequests == 4

\* RateLimiter: the largest rps, the requests that reach GET /api/isearch
\* and the last tick at which one of them arrives.
MaxRate == 2

NumWaiters == 2

ArriveBy == 1

\* RateLimiter, line 19.
defaultBurst == 1

\* JwtAuthenticator.ttl (TOKEN_TTL) in ticks of 1/MaxRate second.
ttl == 3

\* The longest phrase, in runes, handed to words.Norm on its own.
MaxRunes == 5

Callers == 1..NumCallers

Workers == 1..concurrency

ModelledIDs == (1..MaxID) \cup {TombstoneID}

\* What xkcd.LastID can answer when it succeeds.
LastIDs == {0} \cup ModelledIDs

\* ------------------------------------------------------------------ models.go

StatusRunning == "running"

StatusIdle == "idle"

EventUpdate == "update"

EventReset == "reset"

ErrAlreadyExists == "resource or task already exists"

ErrNotFound == "resource is not found"

NoErr == "nil"

\* The errors Update and Drop wrap and return.
ErrIDs == "failed to get existing IDs in DB"

ErrLastID == "failed to get last comic from xkcd API"

ErrAdd == "failed to add comics"

ErrDrop == "failed to drop db entries"

\* A nil *Comic on the results channel.
NilComic == [nil |-> TRUE]

\* ------------------------------------------------------------------ words

Range(s) == {s[i] : i \in 1..Len(s)}

\* english.Stem on the vocabulary of the modelled upstream.
Stem(w) == IF w = "followers" THEN "follow" ELSE w

\* english.IsStopWord on the same vocabulary.
IsStopWord(w) == w \in {"i"}

\* words.Norm: stems in order of first occurrence, no stop-word, no repeat.
RECURSIVE NormFrom(_, _)
NormFrom(tokens, keywords) ==
    IF tokens = <<>> THEN keywords
    ELSE LET stemmed == Stem(Head(tokens))
         IN  IF ~IsStopWord(stemmed) /\ stemmed \notin Range(keywords)
             THEN NormFrom(Tail(tokens), Append(keywords, stemmed))
             ELSE NormFrom(Tail(tokens), keywords)

Norm(phrase) == NormFrom(phrase, <<>>)

\* Words.Norm as the updater sees it: the keywords, or an error of the call.
WordsNorm(phrase) ==
    {[err |-> NoErr, words |-> Norm(phrase)], [err |-> "norm error", words |-> <<>>]}

\* makeDescription: the four text fields joined by a space.
makeDescription(info) ==
    info.SafeTitle \o info.Title \o info.Transcript \o info.Alt

\* ------------------------------------------------------------------ xkcd

\* The texts the modelled upstream serves.
UpstreamTexts ==
    { [SafeTitle |-> <<"follow">>, Title |-> <<"followers">>,
       Transcript |-> <<>>, Alt |-> <<"i">>],
      [SafeTitle |-> <<"follow">>, Title |-> <<"follow">>,
       Transcript |-> <<"car">>, Alt |-> <<>>] }

\* The num of the entry the upstream serves at {base}/{id}/info.0.json: the
\* upstream numbers its entries by the id of their path.
UpstreamNums(id) == {id}

\* Client.Get, lines 46-63: what Get returns for one request, given the nums
\* a 200 response can carry: the decoded entry, whose ID is the num of the
\* response, not-found, or another failure of the request.
XkcdReplies(nums) ==
    { [err |-> NoErr,
       info |-> [ID |-> num, URL |-> "img", SafeTitle |-> t.SafeTitle,
                 Title |-> t.Title, Transcript |-> t.Transcript, Alt |-> t.Alt]]
        : num \in nums, t \in UpstreamTexts }
    \cup {[err |-> ErrNotFound], [err |-> "unexpected status code"]}

\* XKCD.Get(id) over the upstream that numbers its entries by their path.
XkcdGet(id) == XkcdReplies(UpstreamNums(id))

\* XKCD.Get(id) over an upstream whose response may carry any num: Get
\* decodes the body and compares nothing with id.
XkcdGetAnyNum(id) == XkcdReplies(ModelledIDs)

\* XKCD.LastID: the upstream's last id, not-found, or another failure.
XkcdLastID ==
    {[err |-> NoErr, id |-> n] : n \in LastIDs}
    \cup {[err |-> ErrNotFound, id |-> 0], [err |-> "unexpected status code", id |-> 0]}

\* ------------------------------------------------------------------ storage.go

\* The comics table is a function from id (the primary key) to [url, words];
\* comics_stats is its single row.
EmptyComics == [id \in {} |-> [url |-> "", words |-> <<>>]]

ZeroStats == [comics_fetched |-> 0, words_total |-> 0, words_unique |-> 0]

RECURSIVE SumArrayLength(_, _)
SumArrayLength(table, ids) ==
    IF ids = {} THEN 0
    ELSE LET id == CHOOSE x \in ids : TRUE
         IN  Len(table[id].words) + SumArrayLength(table, ids \ {id})

\* The stats CTE of updateStats: COUNT(*), COALESCE(SUM(array_length)), and
\* COUNT(DISTINCT word) over the unnested words.
StatsOf(table) ==
    [comics_fetched |-> Cardinality(DOMAIN table),
     words_total    |-> SumArrayLength(table, DOMAIN table),
     words_unique   |-> Cardinality(UNION {Range(table[id].words) : id \in DOMAIN table})]

\* An Add that leaves the stats row alone.
StatsNotUpdated(table, row) == row

\* updateStats: the row is overwritten by the aggregate of the table.
UpdateStats(table, row) == StatsOf(table)

\* A Drop that leaves the stats row alone.
StatsNotReset(row) == row

\* resetComicsStats.
ResetComicsStats(row) == ZeroStats

\* truncateComics.
TruncateComics(table) == EmptyComics

\* insertComic violates the primary key when an id of the batch is in the
\* table already or occurs twice in the batch.
PrimaryKeyViolation(table, comic) ==
    \E i \in 1..Len(comic) :
        \/ comic[i].ID \in DOMAIN table
        \/ \E j \in 1..Len(comic) : j # i /\ comic[j].ID = comic[i].ID

InsertComic(table, comic) ==
    [id \in DOMAIN table \cup {comic[i].ID : i \in 1..Len(comic)} |->
        IF id \in DOMAIN table THEN table[id]
        ELSE LET c == CHOOSE c \in Range(comic) : c.ID = id
             IN  [url |-> c.URL, words |-> c.Words]]

\* Statements run outside a transaction: what was executed stays.
NoRollback(table, row, txTable, txRow) == [comics |-> txTable, stats |-> txRow]

\* tx.Rollback: the tables are as they were when the transaction began.
Rollback(table, row, txTable, txRow) == [comics |-> table, stats |-> row]

\* Where a database call can fail.
DBFaults == {"none", "begin", "exec1", "exec2", "commit"}

\* DB.Add: insert the batch and recompute the stats in one transaction.
DBAdd(table, row, comic, fault) ==
    IF fault = "begin"
    THEN [err |-> "failed to begin transaction", comics |-> table, stats |-> row]
    ELSE IF fault = "exec1" \/ PrimaryKeyViolation(table, comic)
    THEN [err |-> "failed to insert into comic table"]
         @@ Rollback(table, row, table, row)
    ELSE LET inserted == InsertComic(table, comic)
         IN  IF fault = "exec2"
             THEN [err |-> "failed to update comics_stats table"]
                  @@ Rollback(table, row, inserted, row)
             ELSE LET updated == UpdateStats(inserted, row)
                  IN  IF fault = "commit"
                      THEN [err |-> "failed to commit transaction"]
                           @@ Rollback(table, row, inserted, updated)
                      ELSE [err |-> NoErr, comics |-> inserted, stats |-> updated]

\* DB.Drop: truncate the table and zero the stats in one transaction.
DBDrop(table, row, fault) ==
    IF fault = "begin"
    THEN [err |-> "failed to begin transaction", comics |-> table, stats |-> row]
    ELSE IF fault = "exec1"
    THEN [err |-> "failed to truncate comics table"]
         @@ Rollback(table, row, table, row)
    ELSE LET truncated == TruncateComics(table)
         IN  IF fault = "exec2"
             THEN [err |-> "failed to truncate comics_stats table"]
                  @@ Rollback(table, row, truncated, row)
             ELSE LET reset == ResetComicsStats(row)
                  IN  IF fault = "commit"
                      THEN [err |-> "failed to commit transaction"]
                           @@ Rollback(table, row, truncated, reset)
                      ELSE [err |-> NoErr, comics |-> truncated, stats |-> reset]

\* DB.IDs: the ids of the table, or an error of the query.
DBIDs(table) ==
    {[err |-> NoErr, IDs |-> DOMAIN table],
     [err |-> "failed to select IDs from comics table", IDs |-> {}]}

\* ------------------------------------------------------------------ service.go

VARIABLES
    inProgress,     \* Service.inProgress
    comics,         \* the comics table
    comics_stats,   \* the comics_stats row
    call,           \* per caller: the frame of its Update or Drop call
    broker,         \* the NATS subject the update service publishes to
    service,        \* the search service process: where its main function is
    index,          \* search Service.index
    lock,           \* search Service.lock
    indexer,        \* per goroutine that writes the index: its frame
    search,         \* per client of the search service: the frame of its call
    rank,           \* one call of rankedSearch on its own
    sem,            \* ConcurrencyLimiter.sem: the number of elements it holds
    request,        \* per request to GET /api/search: where it is
    rl,             \* the RateLimiter
    clock,          \* the time, in ticks
    waiter          \* per request to GET /api/isearch: the frame of its wait

\* The update service.
vars == <<inProgress, comics, comics_stats, call>>

\* The search service.
searchVars == <<service, index, lock, indexer, search>>

\* The middleware of the gateway.
gateway == <<sem, request, rl, clock, waiter>>

\* What no step of the update service touches.
outside == <<searchVars, rank, gateway>>

allVars == <<vars, broker, outside>>

\* The subject, as the one subscription of the search service sees it:
\* whether the subscription exists and the messages it holds, oldest first;
\* the oldest stays until the callback has returned from it.  A message is
\* its data (event).  For the properties a message also carries the ids
\* its Update committed (ids), and fresh holds the pairs of an id and a
\* keyword such that an Update committed the entry id with that keyword,
\* the callback handled its message without error, and the index did not
\* have the keyword when the callback took the lock; a committed
\* truncation of the catalog empties both.
NoSubscription == [subscribed |-> FALSE, pending |-> <<>>, fresh |-> {}]

\* ------------------------------------------------------------------ search: state

\* The client of the search service.
Searchers == {"client"}

\* The goroutines that write the index: the callback of the subscription
\* and the scheduler (Start, then its ticker goroutine).
Indexers == {"subscriber", "scheduler"}

\* NewService: `index: make(map[string][]int64)`.  The index is a function
\* from the keys of the map to their posting lists.
EmptyIndex == [k \in {} |-> <<>>]

\* sync.RWMutex: the goroutine that holds it for writing, the goroutines
\* that hold it for reading.
Unlocked == [writer |-> "none", readers |-> {}]

\* The frame of an index writer that is in no call.  op is UpdateIndex or
\* ResetIndex, from is who called it ("event", "start" or "tick"),
\* comicsInfo and next the rows UpdateIndex read and its position in them,
\* err what the call is about to return.  For the properties: had holds
\* the keys the index had when the call cleared it.
NoIndexing ==
    [pc |-> "idle", op |-> "none", from |-> "none", comicsInfo |-> <<>>,
     next |-> 0, err |-> NoErr, had |-> {}]

\* The frame of a client that is in no call.  keywords is the normalized
\* phrase, comics what the call is about to return with err.  For the
\* properties: called holds the ports the call used.
NoSearch ==
    [pc |-> "idle", op |-> "none", phrase |-> <<>>, limit |-> 0,
     keywords |-> <<>>, comics |-> <<>>, err |-> NoErr, called |-> {}]

\* ------------------------------------------------------------------ gateway: state

Requests == 1..NumRequests

Waiters == 1..NumWaiters

\* time.Second in ticks: the clock ticks MaxRate times a second, so that
\* 1/rps seconds are a whole number of ticks for every rps that divides
\* MaxRate, and tokens * TicksPerSecond is a whole number.
TicksPerSecond == MaxRate

\* The values of SEARCH_RATE, an int: a negative one, 0, and the rates a
\* tick can express.
Rates == {rate \in (0 - 1)..MaxRate : rate <= 0 \/ TicksPerSecond % rate = 0}

\* The tick up to which the clock runs in any case: by then every request
\* that arrived by ArriveBy and reserved at once has had its turn at the
\* slowest rate.
Horizon == ArriveBy + NumWaiters * TicksPerSecond

\* The latest time a reservation made by Horizon can be due.
Latest == Horizon + NumWaiters * TicksPerSecond

\* time.Duration(math.MaxInt64) from now, and the zero time.Time: further
\* from every tick than the ticks are from each other.
Forever == Latest + 1

ZeroTime == 0 - Forever

\* A context without deadline; a wait that has reserved nothing.
NoDeadline == 0 - 1

NoDue == 0 - 1

\* The timeouts of the requests: none, or up to a second.
Timeouts == {NoDeadline} \cup (0..TicksPerSecond)

\* NewRateLimiter(rate).  tokens holds rl.tokens * TicksPerSecond.
NewRateLimiter(rate) ==
    [limit |-> rate, burst |-> defaultBurst, tokens |-> 0, last |-> ZeroTime]

\* A request to GET /api/search that has not arrived.
NoRequest == [pc |-> "new"]

\* A request to GET /api/isearch that has not arrived.  deadline and
\* cancelled are its context; due is now.Add(delay) of its reservation.
\* For the properties: at is the tick at which next.ServeHTTP was called.
NoWait ==
    [pc |-> "idle", deadline |-> NoDeadline, cancelled |-> FALSE,
     due |-> NoDue, at |-> NoDue]

\* rankedSearch when nothing calls it.
NoRank == [pc |-> "none", comicsInfo |-> <<>>, setOfPhrase |-> {}, limit |-> 0,
           comics |-> <<>>]

\* A flag that is set without being compared.
StoreUnconditionally(value, old, new) == [swapped |-> TRUE, value |-> new]

\* atomic.Bool.CompareAndSwap: the new value of the flag and whether it swapped.
CompareAndSwap(value, old, new) ==
    IF value = old THEN [swapped |-> TRUE, value |-> new]
    ELSE [swapped |-> FALSE, value |-> value]

\* Service.Status.
Status == IF inProgress THEN StatusRunning ELSE StatusIdle

\* A worker is receiving from jobs ("recv") or holds the job id ("busy");
\* "none" is a worker that was not started.
WorkerRecv == [at |-> "recv", id |-> 0]

\* The frame of a caller that is in no call.  pc is the caller's position;
\* err is the value the call is about to return; deferred tells whether
\* `defer s.inProgress.Store(false)` has been registered; exists .. comics
\* are Update's locals (received counts the results taken by the collecting
\* loop).  The other fields record the call for the properties: before is
\* the catalog and stats when the call won the flag, submitted the ids sent
\* to jobs, fetched the job ids whose fetch and normalization succeeded,
\* skipped the job ids whose fetch or normalization failed, stored whether db.Add
\* or db.Drop was called, pubs the Publish calls made, each with its outcome,
\* taken how many times a worker received each id from jobs, gets how many
\* times xkcd.Get was called for each id.
NoCall ==
    [pc |-> "idle", op |-> "none", err |-> NoErr, deferred |-> FALSE,
     exists |-> {}, lastID |-> 0, jobs |-> <<>>, jobCount |-> 0,
     results |-> <<>>, received |-> 0, comics |-> <<>>,
     workers |-> [w \in Workers |-> [at |-> "none", id |-> 0]],
     before |-> [comics |-> EmptyComics, stats |-> ZeroStats],
     submitted |-> {}, fetched |-> {}, skipped |-> {},
     stored |-> FALSE, pubs |-> <<>>,
     taken |-> [id \in ModelledIDs |-> 0], gets |-> [id \in ModelledIDs |-> 0]]

\* Every service as it is constructed.
Constructed ==
    /\ inProgress = FALSE
    /\ comics = EmptyComics
    /\ comics_stats = ZeroStats
    /\ call = [p \in Callers |-> NoCall]
    /\ broker = NoSubscription
    /\ service = "down"
    /\ index = EmptyIndex
    /\ lock = Unlocked
    /\ indexer = [u \in Indexers |-> NoIndexing]
    /\ search = [s \in Searchers |-> NoSearch]
    /\ sem = 0
    /\ request = [r \in Requests |-> NoRequest]
    /\ clock = 0
    /\ waiter = [r \in Waiters |-> NoWait]

Init == Constructed /\ rank = NoRank /\ rl = NewRateLimiter(MaxRate)

\* The first statement of Update and of Drop: the compare-and-swap, and the
\* defer that is registered only when it swapped.
Enter(p, op, first) ==
    /\ call[p].pc = "idle"
    /\ LET cas == CompareAndSwap(inProgress, FALSE, TRUE)
       IN  /\ inProgress' = cas.value
           /\ call' = [call EXCEPT ![p] =
                IF cas.swapped
                THEN [NoCall EXCEPT !.pc = first, !.op = op, !.deferred = TRUE,
                                    !.before = [comics |-> comics, stats |-> comics_stats]]
                ELSE [NoCall EXCEPT !.pc = "return", !.op = op,
                                    !.err = ErrAlreadyExists]]
    /\ UNCHANGED <<comics, comics_stats>>
    /\ UNCHANGED <<broker, outside>>

\* Update, lines 67-71.
UpdateEnter(p) == Enter(p, "Update", "ids")

\* Drop, lines 190-194.
DropEnter(p) == Enter(p, "Drop", "drop")

\* Update, lines 78-88: db.IDs and the exists set.
UpdateIDs(p) ==
    /\ call[p].pc = "ids"
    /\ \E reply \in DBIDs(comics) :
        call' = [call EXCEPT ![p] =
            IF reply.err # NoErr
            THEN [@ EXCEPT !.pc = "return", !.err = ErrIDs]
            ELSE [@ EXCEPT !.pc = "lastid", !.exists = reply.IDs]]
    /\ UNCHANGED <<inProgress, comics, comics_stats>>
    /\ UNCHANGED <<broker, outside>>

\* Update, lines 109-115: the loop `for id := 1; id <= lastID; id++`, from
\* id on; it sends each id that is not in exists.  The loop passes over the
\* ids the model leaves out.
RECURSIVE JobsFrom(_, _, _)
JobsFrom(id, lastID, exists) ==
    LET rest == {i \in ModelledIDs : id <= i /\ i <= lastID}
    IN  IF rest = {} THEN <<>>
        ELSE LET next == CHOOSE i \in rest : \A j \in rest : i <= j
             IN  (IF ~(next \in exists) THEN <<next>> ELSE <<>>)
                 \o JobsFrom(next + 1, lastID, exists)

\* The loop with `id < lastID`.
EnumerateJobsButLast(lastID, exists) == JobsFrom(1, lastID - 1, exists)

EnumerateJobs(lastID, exists) == JobsFrom(1, lastID, exists)

\* Update, lines 90-116: xkcd.LastID, the two channels of capacity lastID,
\* the workers, the enumeration of 1..lastID and close(jobs).  No send
\* blocks, because jobs holds at most lastID ids.
UpdateLastID(p) ==
    /\ call[p].pc = "lastid"
    /\ \E reply \in XkcdLastID :
        call' = [call EXCEPT ![p] =
            IF reply.err # NoErr
            THEN [@ EXCEPT !.pc = "return", !.err = ErrLastID]
            ELSE LET jobs == EnumerateJobs(reply.id, @.exists)
                 IN  [@ EXCEPT !.pc = "collect", !.lastID = reply.id,
                               !.jobs = jobs, !.jobCount = Len(jobs),
                               !.submitted = Range(jobs),
                               !.workers = [w \in Workers |-> WorkerRecv]]]
    /\ UNCHANGED <<inProgress, comics, comics_stats>>
    /\ UNCHANGED <<broker, outside>>

\* worker, line 146: a worker receives the next id from jobs.
WorkerTake(p, w) ==
    /\ call[p].pc = "collect"
    /\ call[p].workers[w].at = "recv"
    /\ call[p].jobs # <<>>
    /\ call' = [call EXCEPT ![p].workers[w] = [at |-> "busy", id |-> Head(call[p].jobs)],
                            ![p].jobs = Tail(@),
                            ![p].taken[Head(call[p].jobs)] = @ + 1]
    /\ UNCHANGED <<inProgress, comics, comics_stats>>
    /\ UNCHANGED <<broker, outside>>

\* worker, line 146: a worker that is receiving when jobs is closed and
\* empty leaves its range loop and returns; it touches nothing on the way.
WorkerExited(c, w) == c.workers[w].at = "recv" /\ c.jobs = <<>>

\* A worker that stores the comic without keywords when Norm failed.
WorkerResultKeepsUnnormalized(id, get, norm) ==
    IF id = TombstoneID THEN [ID |-> id, URL |-> "", Words |-> <<>>]
    ELSE IF get.err # NoErr THEN NilComic
    ELSE [ID |-> get.info.ID, URL |-> get.info.URL,
          Words |-> IF norm.err # NoErr THEN <<>> ELSE norm.words]

\* worker, lines 147-177: what the worker sends to results for job id, given
\* the reply of xkcd.Get and the reply of words.Norm (neither is called for
\* the tombstone id, Norm is not called when Get failed).
WorkerResult(id, get, norm) ==
    IF id = TombstoneID THEN [ID |-> id, URL |-> "", Words |-> <<>>]
    ELSE IF get.err # NoErr THEN NilComic
    ELSE IF norm.err # NoErr THEN NilComic
    ELSE [ID |-> get.info.ID, URL |-> get.info.URL, Words |-> norm.words]

NoReply == [err |-> "not called"]

\* A worker that asks the upstream for every id.
FetchesEvery(id) == TRUE

\* worker, lines 147-155: the ids the worker calls xkcd.Get for.
Fetches(id) == id # TombstoneID

\* Channels made without capacity.
Unbuffered(lastID) == 0

\* Update, lines 102-103: `make(chan int64, lastID)` and
\* `make(chan *Comic, lastID)`, the capacity of jobs and of results.
Capacity(lastID) == lastID

\* A send to results can proceed when the channel is not full.
CanSendResult(c) == Len(c.results) < Capacity(c.lastID)

\* worker, lines 147-177: one iteration of the range loop; upstream[id] is
\* what xkcd.Get(id) can return.
WorkerIteration(p, w, upstream) ==
    /\ call[p].pc = "collect"
    /\ call[p].workers[w].at = "busy"
    /\ CanSendResult(call[p])
    /\ LET id == call[p].workers[w].id
       IN  \E get \in (IF Fetches(id) THEN upstream[id] ELSE {NoReply}) :
           \E norm \in (IF get.err = NoErr
                        THEN WordsNorm(makeDescription(get.info)) ELSE {NoReply}) :
             LET result == WorkerResult(id, get, norm)
             IN  call' = [call EXCEPT
                    ![p].workers[w] = WorkerRecv,
                    ![p].results = Append(@, result),
                    ![p].gets[id] = IF get # NoReply THEN @ + 1 ELSE @,
                    ![p].fetched = IF get.err = NoErr /\ norm.err = NoErr
                                   THEN @ \cup {id} ELSE @,
                    ![p].skipped = IF id # TombstoneID
                                      /\ (get.err # NoErr \/ norm.err # NoErr)
                                   THEN @ \cup {id} ELSE @]
    /\ UNCHANGED <<inProgress, comics, comics_stats>>
    /\ UNCHANGED <<broker, outside>>

\* The iteration over the upstream that numbers its entries by their path.
WorkerDo(p, w) == WorkerIteration(p, w, [id \in ModelledIDs |-> XkcdGet(id)])

\* The iteration over an upstream whose response may carry any num.
WorkerDoAnyNum(p, w) == WorkerIteration(p, w, [id \in ModelledIDs |-> XkcdGetAnyNum(id)])

\* Update, lines 118-124: the collecting loop receives one result.
UpdateCollect(p) ==
    /\ call[p].pc = "collect"
    /\ call[p].received < call[p].jobCount
    /\ call[p].results # <<>>
    /\ LET comic == Head(call[p].results)
       IN  call' = [call EXCEPT
              ![p].results = Tail(@),
              ![p].received = @ + 1,
              ![p].comics = IF comic # NilComic THEN Append(@, comic) ELSE @]
    /\ UNCHANGED <<inProgress, comics, comics_stats>>
    /\ UNCHANGED <<broker, outside>>

\* The empty batch handed to db.Add like any other.
NeverEmpty(batch) == FALSE

\* Update, line 126.
NoNewComics(batch) == Len(batch) = 0

\* Update, lines 126-136: after the collecting loop, return when nothing was
\* produced, else db.Add.
UpdateAdd(p) ==
    /\ call[p].pc = "collect"
    /\ call[p].received = call[p].jobCount
    /\ IF NoNewComics(call[p].comics)
       THEN /\ call' = [call EXCEPT ![p].pc = "return", ![p].err = NoErr]
            /\ UNCHANGED <<comics, comics_stats>>
       ELSE \E fault \in DBFaults :
            LET reply == DBAdd(comics, comics_stats, call[p].comics, fault)
            IN  /\ comics' = reply.comics
                /\ comics_stats' = reply.stats
                /\ call' = [call EXCEPT ![p] =
                      IF reply.err # NoErr
                      THEN [@ EXCEPT !.pc = "return", !.err = ErrAdd, !.stored = TRUE]
                      ELSE [@ EXCEPT !.pc = "publish", !.stored = TRUE]]
    /\ UNCHANGED inProgress
    /\ UNCHANGED <<broker, outside>>

EventOf(op) == IF op = "Update" THEN EventUpdate ELSE EventReset

\* nats.Conn.Publish succeeded: the subscription, when there is one and it
\* has room, holds the message; nobody else listens on the subject.
Delivered(b, msg) ==
    IF b.subscribed /\ Len(b.pending) < MaxPending
    THEN [b EXCEPT !.pending = Append(@, msg)]
    ELSE b

\* A truncation of the catalog was committed.
Truncated(b) ==
    [b EXCEPT !.fresh = {},
              !.pending = [i \in DOMAIN @ |-> [@[i] EXCEPT !.ids = {}]]]

\* A message that the callback has not returned from: no index, no error.
NotHandled == [index |-> [k \in {} |-> <<>>], err |-> "none"]

\* The message one call publishes.  For the properties a message says
\* which delivery it is in (copy): 0 for a message delivered once, 1 for
\* the first delivery of a message that is delivered twice, 2 for its second
\* delivery, which carries the index and the error the first one ended
\* with (first).
Message(c) ==
    [event |-> EventOf(c.op), ids |-> {c.comics[i].ID : i \in 1..Len(c.comics)},
     copy |-> 0, first |-> NotHandled]

\* The callback returned from the oldest message with err, leaving idx: the
\* message is gone, or it is there once more when it is delivered twice.
Acked(pending, idx, err) ==
    IF Head(pending).copy = 1
    THEN <<[Head(pending) EXCEPT !.copy = 2, !.first = [index |-> idx, err |-> err]]>>
         \o Tail(pending)
    ELSE Tail(pending)

\* Drop, lines 196-200: db.Drop.
DropStore(p) ==
    /\ call[p].pc = "drop"
    /\ \E fault \in DBFaults :
        LET reply == DBDrop(comics, comics_stats, fault)
        IN  /\ comics' = reply.comics
            /\ comics_stats' = reply.stats
            /\ call' = [call EXCEPT ![p] =
                  IF reply.err # NoErr
                  THEN [@ EXCEPT !.pc = "return", !.err = ErrDrop, !.stored = TRUE]
                  ELSE [@ EXCEPT !.pc = "publish", !.stored = TRUE]]
            /\ broker' = IF reply.err # NoErr THEN broker ELSE Truncated(broker)
    /\ UNCHANGED inProgress
    /\ UNCHANGED outside

\* The publish error returned to the caller.
PublishErrorReturned(err) == err

\* Update, lines 138-142, and Drop, lines 201-205: what the call returns
\* after Publish answered err.
AfterPublish(err) == NoErr

\* publisher.Publish, which may fail, then `return nil`.
Publish(p) ==
    /\ call[p].pc = "publish"
    /\ \E err \in {NoErr, "publish error"} :
        /\ call' = [call EXCEPT
            ![p].pc = "return",
            ![p].err = AfterPublish(err),
            ![p].pubs = Append(@, [event |-> EventOf(call[p].op), err |-> err])]
        /\ broker' = IF err = NoErr THEN Delivered(broker, Message(call[p]))
                                    ELSE broker
    /\ UNCHANGED <<inProgress, comics, comics_stats>>
    /\ UNCHANGED outside

\* The defer registered before the compare-and-swap: every return clears.
StoreOnEveryReturn(deferred, value) == FALSE

\* The defer left out: no return clears.
StoreOnNoReturn(deferred, value) == value

\* The deferred Store(false), when one was registered: the value of the flag
\* after the call returned.
DeferredStore(deferred, value) == IF deferred THEN FALSE ELSE value

\* The call returns err to its caller, after its deferred calls ran.
Return(p) ==
    /\ call[p].pc = "return"
    /\ inProgress' = DeferredStore(call[p].deferred, inProgress)
    /\ call' = [call EXCEPT ![p] = NoCall]
    /\ UNCHANGED <<comics, comics_stats>>
    /\ UNCHANGED <<broker, outside>>

Next ==
    \E p \in Callers :
        \/ UpdateEnter(p)
        \/ DropEnter(p)
        \/ UpdateIDs(p)
        \/ UpdateLastID(p)
        \/ \E w \in Workers : WorkerTake(p, w)
        \/ \E w \in Workers : WorkerDo(p, w)
        \/ UpdateCollect(p)
        \/ UpdateAdd(p)
        \/ DropStore(p)
        \/ Publish(p)
        \/ Return(p)

Spec == Init /\ [][Next]_allVars

\* Update and Drop over an upstream whose responses may carry any num.
NumNext ==
    \E p \in Callers :
        \/ UpdateEnter(p)
        \/ DropEnter(p)
        \/ UpdateIDs(p)
        \/ UpdateLastID(p)
        \/ \E w \in Workers : WorkerTake(p, w)
        \/ \E w \in Workers : WorkerDoAnyNum(p, w)
        \/ UpdateCollect(p)
        \/ UpdateAdd(p)
        \/ DropStore(p)
        \/ Publish(p)
        \/ Return(p)

SpecNum == Init /\ [][NumNext]_allVars

\* The calls that Update and Drop make return, the goroutines of the
\* workers and of the callers run.  Nothing makes a client call.
UpdateFairness ==
    \A p \in Callers :
        /\ WF_allVars(UpdateIDs(p))
        /\ WF_allVars(UpdateLastID(p))
        /\ \A w \in Workers : WF_allVars(WorkerTake(p, w)) /\ WF_allVars(WorkerDo(p, w))
        /\ WF_allVars(UpdateCollect(p))
        /\ WF_allVars(UpdateAdd(p))
        /\ WF_allVars(DropStore(p))
        /\ WF_allVars(Publish(p))
        /\ WF_allVars(Return(p))

SpecFair == Spec /\ UpdateFairness

\* ------------------------------------------------------------------ search: service.go

\* The rearrangements of a sequence.
Rearrangements(s) ==
    LET n == Len(s)
    IN  { [i \in 1..n |-> s[f[i]]] :
            f \in {g \in [1..n -> 1..n] : \A i, j \in 1..n : i # j => g[i] # g[j]} }

\* sort.Slice, which is not stable: the slice rearranged so that no element
\* is less than one before it; elements of which neither is less than the
\* other end in any order.  isLess holds the pairs <<a, b>> of elements
\* for which the less function returns true.
SortSlice(s, isLess) ==
    {p \in Rearrangements(s) : \A i, j \in 1..Len(p) : i < j => <<p[j], p[i]>> \notin isLess}

\* rankedSearch, lines 129-134: the words of the comic that are in the phrase.
matched(Words, setOfPhrase) ==
    Cardinality({i \in 1..Len(Words) : Words[i] \in setOfPhrase})

\* A rankedSearch that ranks the comics without a match too.
comicsRanksOfAll(comicsInfo, setOfPhrase) ==
    [i \in 1..Len(comicsInfo) |->
        [Comic   |-> [ID |-> comicsInfo[i].ID, URL |-> comicsInfo[i].URL],
         matched |-> matched(comicsInfo[i].Words, setOfPhrase),
         total   |-> Len(comicsInfo[i].Words)]]

\* rankedSearch, lines 127-143: the ranks of the comics that match.
comicsRanks(comicsInfo, setOfPhrase) ==
    LET rankOf(comic) ==
            [Comic   |-> [ID |-> comic.ID, URL |-> comic.URL],
             matched |-> matched(comic.Words, setOfPhrase),
             total   |-> Len(comic.Words)]
        all == [i \in 1..Len(comicsInfo) |-> rankOf(comicsInfo[i])]
    IN  SelectSeq(all, LAMBDA r : r.matched # 0)

\* A comparison by the number of matches alone.
lessByMatched(a, b) == a.matched > b.matched

\* rankedSearch, lines 151-158: the less function of the sort.
less(a, b) ==
    IF a.matched # b.matched THEN a.matched > b.matched
    ELSE LET crossI == a.matched * b.total
             crossJ == b.matched * a.total
         IN  crossI > crossJ

Min(a, b) == IF a < b THEN a ELSE b

\* rankedSearch: what it can return; limit > 0, as Search has checked.
rankedSearch(comicsInfo, setOfPhrase, limit) ==
    IF Len(comicsInfo) = 0 THEN {<<>>}
    ELSE LET ranks == comicsRanks(comicsInfo, setOfPhrase)
         IN  IF Len(ranks) = 0 THEN {<<>>}
             ELSE { [i \in 1..Min(Len(sorted), limit) |-> sorted[i].Comic] :
                      sorted \in SortSlice(ranks, { pair \in Range(ranks) \X Range(ranks) :
                                                        less(pair[1], pair[2]) }) }

\* The enumerations of a set: its elements in any order.
Enumerations(S) ==
    LET n == Cardinality(S)
    IN  {f \in [1..n -> S] : \A i, j \in 1..n : i # j => f[i] # f[j]}

\* DB.GetAllComicsInfo, `SELECT id, url, words FROM comics`: the rows in
\* the order the database chooses, or an error of the query.
GetAllComicsInfo(table) ==
    { [err |-> NoErr, rows |-> rows] :
        rows \in Enumerations({ [ID |-> id, URL |-> table[id].url, Words |-> table[id].words] :
                                  id \in DOMAIN table }) }
    \cup {[err |-> "failed to get all comics info", rows |-> <<>>]}

\* A query that fails when the table lacks one of the ids.
GetEveryComicByIds(table, ids) ==
    { [err |-> NoErr, rows |-> rows] :
        rows \in { r \in Enumerations({ [ID |-> id, URL |-> table[id].url] :
                                          id \in DOMAIN table \cap Range(ids) }) :
                     Range(ids) \subseteq DOMAIN table } }
    \cup {[err |-> "failed to get comics by ids", rows |-> <<>>]}

\* DB.GetComicsByIds, `SELECT id, url FROM comics WHERE id = ANY($1)`.
GetComicsByIds(table, ids) ==
    { [err |-> NoErr, rows |-> rows] :
        rows \in Enumerations({ [ID |-> id, URL |-> table[id].url] :
                                  id \in DOMAIN table \cap Range(ids) }) }
    \cup {[err |-> "failed to get comics by ids", rows |-> <<>>]}

\* Service.index[keyword]: nil for a key the map does not hold.
Postings(idx, keyword) == IF keyword \in DOMAIN idx THEN idx[keyword] ELSE <<>>

\* A loop that appends nothing.
AppendNothing(idx, id, Words) == idx

\* UpdateIndex, lines 240-244: `s.index[keyword] = append(s.index[keyword],
\* comicInfo.ID)` for the keywords of one row, from the first on.
RECURSIVE AppendPostings(_, _, _)
AppendPostings(idx, id, Words) ==
    IF Words = <<>> THEN idx
    ELSE LET keyword == Head(Words)
             appended == Append(Postings(idx, keyword), id)
         IN  AppendPostings(
                [k \in DOMAIN idx \cup {keyword} |->
                    IF k = keyword THEN appended ELSE idx[k]],
                id, Tail(Words))

\* ISearch, lines 192-199: the ids of the posting lists of the keywords, in
\* the order the two loops meet them.
RECURSIVE Found(_, _)
Found(idx, keywords) ==
    IF keywords = <<>> THEN <<>>
    ELSE Postings(idx, Head(keywords)) \o Found(idx, Tail(keywords))

\* Scores that count the posting list of the first keyword alone.
scoresOfFirst(idx, keywords, id) ==
    LET found == IF keywords = <<>> THEN <<>> ELSE Postings(idx, Head(keywords))
    IN  Cardinality({i \in 1..Len(found) : found[i] = id})

\* ISearch, lines 190-199: scores[id] after the loops (0 for an id the map
\* does not hold).
scores(idx, keywords, id) ==
    LET found == Found(idx, keywords)
    IN  Cardinality({i \in 1..Len(found) : found[i] = id})

\* ISearch, lines 191-199: uniqueIDs after the loops.
RECURSIVE Unique(_, _)
Unique(found, seen) ==
    IF found = <<>> THEN seen
    ELSE Unique(Tail(found),
                IF Head(found) \in Range(seen) THEN seen ELSE Append(seen, Head(found)))

uniqueIDs(idx, keywords) == Unique(Found(idx, keywords), <<>>)

\* A sort by ascending score.
scoreLessAscending(idx, keywords, a, b) ==
    scores(idx, keywords, a.ID) < scores(idx, keywords, b.ID)

\* ISearch, lines 209-211: the less function of the sort.
scoreLess(idx, keywords, a, b) ==
    scores(idx, keywords, a.ID) > scores(idx, keywords, b.ID)

\* ISearch, lines 209-218: what it can return for the rows the store gave.
rankedByScore(idx, keywords, rows, limit) ==
    { SubSeq(sorted, 1, Min(Len(sorted), limit)) :
        sorted \in SortSlice(rows, { pair \in Range(rows) \X Range(rows) :
                                        scoreLess(idx, keywords, pair[1], pair[2]) }) }

\* The arguments Search and ISearch refuse.
BadArguments(phrase, limit) == phrase = <<>> \/ limit <= 0

\* ------------------------------------------------------------------ search: the index writers

\* A writer enters UpdateIndex or ResetIndex: its next step takes the lock.
Begin(op, from) == [NoIndexing EXCEPT !.pc = "lock", !.op = op, !.from = from]

\* A HandleEvent that resets the index for an event it does not know.
HandleEventOrReset(event) ==
    IF event = EventUpdate THEN Begin("UpdateIndex", "event")
    ELSE Begin("ResetIndex", "event")

\* HandleEvent: UpdateIndex for an update, ResetIndex for a reset; any
\* other event is logged and nil is returned at once.
HandleEvent(event) ==
    IF event = EventUpdate THEN Begin("UpdateIndex", "event")
    ELSE IF event = EventReset THEN Begin("ResetIndex", "event")
    ELSE NoIndexing

\* main of the search service: NewNatsSubscriber connects and subscribes;
\* when either fails, main returns.
Subscribe ==
    /\ service = "down"
    /\ \E ok \in BOOLEAN :
        /\ service' = IF ok THEN "subscribed" ELSE "exited"
        /\ broker' = IF ok THEN [broker EXCEPT !.subscribed = TRUE] ELSE broker
    /\ UNCHANGED <<vars, index, lock, indexer, search, rank, gateway>>

\* The callback of the subscription, called with the oldest message once
\* its previous call has returned.
Callback ==
    /\ service \in {"subscribed", "starting", "serving"}
    /\ broker.pending # <<>>
    /\ indexer["subscriber"].pc = "idle"
    /\ indexer' = [indexer EXCEPT
            !["subscriber"] = HandleEvent(Head(broker.pending).event)]
    /\ broker' = IF indexer'["subscriber"].pc = "idle"
                 THEN [broker EXCEPT !.pending = Acked(@, index, NoErr)]
                 ELSE broker
    /\ UNCHANGED <<vars, service, index, lock, search, rank, gateway>>

\* SearcherScheduler.Start, line 228: the first UpdateIndex, made by main.
SchedulerStart ==
    /\ service = "subscribed"
    /\ service' = "starting"
    /\ indexer' = [indexer EXCEPT
            !["scheduler"] = Begin("UpdateIndex", "start")]
    /\ UNCHANGED <<vars, broker, index, lock, search, rank, gateway>>

\* A ticker goroutine that calls ResetIndex.
ResetOnTick == Begin("ResetIndex", "tick")

\* The ticker goroutine, line 238: `s.searcher.UpdateIndex(ctx)`.
OnTick == Begin("UpdateIndex", "tick")

\* The ticker goroutine, lines 237-241: a tick.
Tick ==
    /\ service = "serving"
    /\ indexer["scheduler"].pc = "idle"
    /\ indexer' = [indexer EXCEPT
            !["scheduler"] = OnTick]
    /\ UNCHANGED <<vars, broker, service, index, lock, search, rank, gateway>>

\* sync.RWMutex.Lock returns when nobody holds the lock.
CanLock(l) == l.writer = "none" /\ l.readers = {}

\* UpdateIndex, line 224, and ResetIndex, line 249: s.lock.Lock().
IndexLock(u) ==
    /\ service # "exited"
    /\ indexer[u].pc = "lock"
    /\ CanLock(lock)
    /\ lock' = [lock EXCEPT !.writer = u]
    /\ indexer' = [indexer EXCEPT
            ![u].pc = IF indexer[u].op = "UpdateIndex" THEN "read" ELSE "clear"]
    /\ UNCHANGED <<vars, broker, service, index, search, rank, gateway>>

\* An UpdateIndex that clears the index before it reads the catalog.
ClearedAnyway(idx, err) == EmptyIndex

\* UpdateIndex, lines 232-236: the index after a failed read.
AfterFailedRead(idx, err) == idx

\* UpdateIndex, lines 232-236: GetAllComicsInfo.
UpdateIndexRead(u) ==
    /\ service # "exited"
    /\ indexer[u].pc = "read"
    /\ \E reply \in GetAllComicsInfo(comics) :
        IF reply.err # NoErr
        THEN /\ indexer' = [indexer EXCEPT ![u].pc = "return", ![u].err = reply.err]
             /\ index' = AfterFailedRead(index, reply.err)
        ELSE /\ indexer' = [indexer EXCEPT ![u].pc = "clear",
                                            ![u].comicsInfo = reply.rows]
             /\ UNCHANGED index
    /\ UNCHANGED <<vars, broker, service, lock, search, rank, gateway>>

\* A map that is not cleared.
KeptAsItWas(idx) == idx

\* clear(s.index): the map without its keys.
Cleared(idx) == EmptyIndex

\* UpdateIndex, line 238, and ResetIndex, line 251: clear(s.index).
IndexClear(u) ==
    /\ service # "exited"
    /\ indexer[u].pc = "clear"
    /\ index' = Cleared(index)
    /\ indexer' = [indexer EXCEPT
            ![u].pc = IF indexer[u].op = "UpdateIndex" THEN "build" ELSE "return",
            ![u].next = 1, ![u].had = DOMAIN index]
    /\ UNCHANGED <<vars, broker, service, lock, search, rank, gateway>>

\* UpdateIndex, lines 240-244: one row of the outer loop.
UpdateIndexAppend(u) ==
    /\ service # "exited"
    /\ indexer[u].pc = "build"
    /\ indexer[u].next <= Len(indexer[u].comicsInfo)
    /\ LET row == indexer[u].comicsInfo[indexer[u].next]
       IN  index' = AppendPostings(index, row.ID, row.Words)
    /\ indexer' = [indexer EXCEPT ![u].next = @ + 1]
    /\ UNCHANGED <<vars, broker, service, lock, search, rank, gateway>>

\* A Start that starts the ticker goroutine whatever the first UpdateIndex
\* returned.
StartedAnyway(err) == "serving"

\* Start, lines 228-230 and 247: main goes on to serve when the first
\* UpdateIndex succeeded and returns when it failed.
AfterStart(err) == IF err = NoErr THEN "serving" ELSE "exited"

\* The ticker goroutine, lines 238-240: the error is logged and the loop
\* goes on.
AfterTick(err) == "serving"

\* The callback returned from the oldest message.  For the properties,
\* after an UpdateIndex without error the entries of the message are fresh
\* for the keywords that the index did not have.
Handled(b, frame, table) ==
    LET msg == Head(b.pending)
    IN  [b EXCEPT
            !.pending = Acked(@, index, frame.err),
            !.fresh = IF frame.op = "UpdateIndex" /\ frame.err = NoErr
                      THEN @ \cup UNION { { <<id, k>> : k \in Range(table[id].words)
                                                             \ frame.had }
                                          : id \in msg.ids \cap DOMAIN table }
                      ELSE @]

\* An Unlock that is skipped when the call returns an error.
UnlockUnlessFailed(l, err) == IF err = NoErr THEN [l EXCEPT !.writer = "none"] ELSE l

\* UpdateIndex, line 225, and ResetIndex, line 250: `defer s.lock.Unlock()`,
\* which runs whatever error the call returns.
Unlock(l, err) == [l EXCEPT !.writer = "none"]

\* UpdateIndex and ResetIndex return: the deferred Unlock, then the caller
\* goes on.  When main returns, its deferred Unsubscribe runs.
IndexReturn(u) ==
    /\ service # "exited"
    /\ \/ indexer[u].pc = "return"
       \/ indexer[u].pc = "build" /\ indexer[u].next > Len(indexer[u].comicsInfo)
    /\ lock' = Unlock(lock, indexer[u].err)
    /\ indexer' = [indexer EXCEPT ![u] = NoIndexing]
    /\ service' = IF indexer[u].from = "start" THEN AfterStart(indexer[u].err)
                  ELSE IF indexer[u].from = "tick" /\ service = "serving"
                  THEN AfterTick(indexer[u].err)
                  ELSE service
    /\ broker' = IF service' = "exited"
                 THEN [broker EXCEPT !.subscribed = FALSE, !.pending = <<>>]
                 ELSE IF indexer[u].from = "event"
                 THEN Handled(broker, indexer[u], comics)
                 ELSE broker
    /\ UNCHANGED <<vars, index, search, rank, gateway>>

\* ------------------------------------------------------------------ search: the clients

\* The phrases the clients send: the empty phrase, one word, and three
\* words of which one is a stop-word.
Phrases == {<<>>, <<"followers">>, <<"car", "i", "follow">>}

\* The limits the clients send.
Limits == 0..MaxLimit

\* A Search that validates nothing.
NeverBad(phrase, limit) == FALSE

\* Search, lines 95-97, and ISearch, lines 176-178.
Refused(phrase, limit) == BadArguments(phrase, limit)

\* A Search that begins with s.lock.RLock(), as ISearch does.
SearchWaitsForWriter(l) == l.writer = "none"

\* Search, lines 94-120, has no statement that takes s.lock: it goes on
\* whoever holds it.
SearchGoesOn(l) == TRUE

\* Search, lines 94-97: the call and its validation.
SearchCall(s) ==
    /\ service = "serving"
    /\ search[s].pc = "idle"
    /\ SearchGoesOn(lock)
    /\ \E phrase \in Phrases, limit \in Limits :
        search' = [search EXCEPT ![s] =
            IF Refused(phrase, limit)
            THEN [NoSearch EXCEPT !.pc = "done", !.op = "Search", !.phrase = phrase,
                                  !.limit = limit, !.err = "ErrBadArguments"]
            ELSE [NoSearch EXCEPT !.pc = "norm", !.op = "Search", !.phrase = phrase,
                                  !.limit = limit]]
    /\ UNCHANGED <<vars, broker, service, index, lock, indexer, rank, gateway>>

\* A read lock that does not wait for the writer.
RLockAnyway(l) == TRUE

\* sync.RWMutex.RLock returns when no writer holds the lock.
CanRLock(l) == l.writer = "none"

\* ISearch, lines 172-178: the call, s.lock.RLock() and the validation.
ISearchRLock(s) ==
    /\ service = "serving"
    /\ search[s].pc = "idle"
    /\ CanRLock(lock)
    /\ lock' = [lock EXCEPT !.readers = @ \cup {s}]
    /\ \E phrase \in Phrases, limit \in Limits :
        search' = [search EXCEPT ![s] =
            IF Refused(phrase, limit)
            THEN [NoSearch EXCEPT !.pc = "done", !.op = "ISearch", !.phrase = phrase,
                                  !.limit = limit, !.err = "ErrBadArguments"]
            ELSE [NoSearch EXCEPT !.pc = "norm", !.op = "ISearch", !.phrase = phrase,
                                  !.limit = limit]]
    /\ UNCHANGED <<vars, broker, service, index, indexer, rank, gateway>>

\* Search, lines 104-108, and ISearch, lines 185-189: words.Norm.
SearchNorm(s) ==
    /\ search[s].pc = "norm"
    /\ \E reply \in WordsNorm(search[s].phrase) :
        search' = [search EXCEPT ![s] =
            IF reply.err # NoErr
            THEN [@ EXCEPT !.pc = "done", !.err = "failed to normalized phrase",
                           !.called = @ \cup {"words"}]
            ELSE [@ EXCEPT !.pc = IF search[s].op = "Search" THEN "scan" ELSE "lookup",
                           !.keywords = reply.words, !.called = @ \cup {"words"}]]
    /\ UNCHANGED <<vars, broker, service, index, lock, indexer, rank, gateway>>

\* Search, lines 109-119: GetAllComicsInfo and rankedSearch.
SearchScan(s) ==
    /\ search[s].pc = "scan"
    /\ \E reply \in GetAllComicsInfo(comics) :
        IF reply.err # NoErr
        THEN search' = [search EXCEPT
                ![s].pc = "done", ![s].err = "failed to get all comics",
                ![s].called = @ \cup {"db"}]
        ELSE \E ranked \in rankedSearch(reply.rows, Range(search[s].keywords),
                                         search[s].limit) :
             search' = [search EXCEPT
                ![s].pc = "done", ![s].comics = ranked,
                ![s].called = @ \cup {"db"}]
    /\ UNCHANGED <<vars, broker, service, index, lock, indexer, rank, gateway>>

\* ISearch, lines 191-219: the scores, GetComicsByIds, the sort and the cut.
ISearchLookup(s) ==
    /\ search[s].pc = "lookup"
    /\ \E reply \in GetComicsByIds(comics, uniqueIDs(index, search[s].keywords)) :
        IF reply.err # NoErr
        THEN search' = [search EXCEPT
                ![s].pc = "done", ![s].err = "failed to get comics by comics ids",
                ![s].called = @ \cup {"db"}]
        ELSE \E ranked \in rankedByScore(index, search[s].keywords, reply.rows,
                                          search[s].limit) :
             search' = [search EXCEPT
                ![s].pc = "done", ![s].comics = ranked,
                ![s].called = @ \cup {"db"}]
    /\ UNCHANGED <<vars, broker, service, index, lock, indexer, rank, gateway>>

\* Search and ISearch return comics and err; ISearch's deferred RUnlock
\* runs first.
SearchReturn(s) ==
    /\ search[s].pc = "done"
    /\ lock' = IF search[s].op = "ISearch" THEN [lock EXCEPT !.readers = @ \ {s}]
                                           ELSE lock
    /\ search' = [search EXCEPT ![s] = NoSearch]
    /\ UNCHANGED <<vars, broker, service, index, indexer, rank, gateway>>

\* ------------------------------------------------------------------ the services together

\* The one client of the update service that the search service is run
\* against: calls that overlap its call are refused and change nothing.
UpdateClient == 1

\* The entries the upstream serves while the search service runs: two,
\* the first with one keyword, the second with that keyword and another.
Served ==
    LET texts == [id \in {1, 2} |->
                    CHOOSE t \in UpstreamTexts : (t.Transcript = <<>>) <=> (id = 1)]
    IN  { [ID |-> id, URL |-> "img", Words |-> Norm(makeDescription(texts[id]))] :
            id \in {1, 2} }

\* Update, lines 78-124, as one step: db.IDs, xkcd.LastID, the workers and
\* the collecting loop, up to the batch: entries of the upstream that the
\* catalog does not have, in the order the workers sent them.  Nothing
\* but the update service takes part in these steps, so the search service
\* sees them as one.  Of the locals only comics is read afterwards; the
\* step sets no other.
UpdateFetch(p) ==
    /\ call[p].pc = "ids"
    /\ \E ids \in DBIDs(comics), last \in {NoErr, "failed to get last id"} :
        IF ids.err # NoErr
        THEN call' = [call EXCEPT ![p].pc = "return", ![p].err = ErrIDs]
        ELSE IF last # NoErr
        THEN call' = [call EXCEPT ![p].pc = "return", ![p].err = ErrLastID]
        ELSE \E fetched \in SUBSET {c \in Served : c.ID \notin ids.IDs} :
             \E batch \in Enumerations(fetched) :
                call' = [call EXCEPT ![p].pc = "collect", ![p].comics = batch]
    /\ UNCHANGED <<inProgress, comics, comics_stats, broker, outside>>

SearchNext ==
    \/ UpdateEnter(UpdateClient)
    \/ UpdateFetch(UpdateClient)
    \/ UpdateAdd(UpdateClient)
    \/ DropEnter(UpdateClient)
    \/ DropStore(UpdateClient)
    \/ Publish(UpdateClient)
    \/ Return(UpdateClient)
    \/ Subscribe
    \/ SchedulerStart
    \/ Callback
    \/ Tick
    \/ \E u \in Indexers :
        \/ IndexLock(u)
        \/ UpdateIndexRead(u)
        \/ IndexClear(u)
        \/ UpdateIndexAppend(u)
        \/ IndexReturn(u)
    \/ \E s \in Searchers :
        \/ SearchCall(s)
        \/ ISearchRLock(s)
        \/ SearchNorm(s)
        \/ SearchScan(s)
        \/ ISearchLookup(s)
        \/ SearchReturn(s)

SpecSearch == Init /\ [][SearchNext]_allVars

\* ------------------------------------------------------------------ search: the scheduler and its context

\* main of the search service, lines 87-88: ctx is the context of
\* signal.NotifyContext; a signal that arrives while main serves cancels it.
CancelContext ==
    /\ service = "serving"
    /\ service' = "cancelled"
    /\ UNCHANGED <<vars, broker, index, lock, indexer, search, rank, gateway>>

\* The ticker goroutine, lines 236-240: the select with ctx.Done() closed
\* and a tick in ticker.C.  Both cases can proceed and select takes either:
\* here it takes the tick, and UpdateIndex is called with the cancelled
\* context.
LateTick ==
    /\ service = "cancelled"
    /\ indexer["scheduler"].pc = "idle"
    /\ indexer' = [indexer EXCEPT
            !["scheduler"] = Begin("UpdateIndex", "late")]
    /\ UNCHANGED <<vars, broker, service, index, lock, search, rank, gateway>>

\* The ticker goroutine, lines 241-243: the select takes ctx.Done(); the
\* goroutine returns and the deferred ticker.Stop runs.
TickerReturn ==
    /\ service = "cancelled"
    /\ indexer["scheduler"].pc = "idle"
    /\ service' = "stopped"
    /\ UNCHANGED <<vars, broker, index, lock, indexer, search, rank, gateway>>

\* The search service without its clients: the update service fills the
\* catalog and publishes, the subscriber and the scheduler write the index,
\* and the context of main can be cancelled.
SchedNext ==
    \/ UpdateEnter(UpdateClient)
    \/ UpdateFetch(UpdateClient)
    \/ UpdateAdd(UpdateClient)
    \/ DropEnter(UpdateClient)
    \/ DropStore(UpdateClient)
    \/ Publish(UpdateClient)
    \/ Return(UpdateClient)
    \/ Subscribe
    \/ SchedulerStart
    \/ Callback
    \/ Tick
    \/ CancelContext
    \/ LateTick
    \/ TickerReturn
    \/ \E u \in Indexers :
        \/ IndexLock(u)
        \/ UpdateIndexRead(u)
        \/ IndexClear(u)
        \/ UpdateIndexAppend(u)
        \/ IndexReturn(u)

SpecSched == Init /\ [][SchedNext]_allVars

\* The goroutine of the scheduler runs: its select takes a case that can
\* proceed, at random among several, so that a case that can proceed again
\* and again is taken; sync.RWMutex.Lock is granted to a writer that waits;
\* the calls that UpdateIndex and ResetIndex make return.
SchedFairness ==
    /\ SF_allVars(TickerReturn)
    /\ SF_allVars(IndexLock("scheduler"))
    /\ \A u \in Indexers :
        /\ WF_allVars(UpdateIndexRead(u))
        /\ WF_allVars(IndexClear(u))
        /\ WF_allVars(UpdateIndexAppend(u))
        /\ WF_allVars(IndexReturn(u))

SpecSchedFair == SpecSched /\ SchedFairness

\* The scheduler with its ticker: besides the above, time.Ticker sends a
\* tick every interval, so that the goroutine that waits in its select
\* while the service serves gets one.
SpecTicking == SpecSched /\ SchedFairness /\ WF_allVars(Tick)

\* ------------------------------------------------------------------ search: events delivered twice

\* The payloads a message on the subject can have: those of the update
\* service and one that HandleEvent does not know.
Payloads == {EventUpdate, EventReset, "other"}

\* No message that is delivered twice is with the subscription.
Quiet == \A i \in DOMAIN broker.pending : broker.pending[i].copy = 0

\* A message with any payload arrives at the subscription and will be
\* delivered twice (the callback of NewNatsSubscriber, lines 41-47, is
\* called for each delivery).  It arrives while no other writer of the
\* index is at work.
DeliveredTwice ==
    /\ service = "serving"
    /\ broker.subscribed
    /\ Len(broker.pending) < MaxPending
    /\ Quiet
    /\ indexer["scheduler"].pc = "idle"
    /\ \E event \in Payloads :
        broker' = [broker EXCEPT !.pending =
            Append(@, [event |-> event, ids |-> {}, copy |-> 1, first |-> NotHandled])]
    /\ UNCHANGED <<vars, service, index, lock, indexer, search, rank, gateway>>

\* The search service without its clients, with messages that are
\* delivered twice: from the arrival of such a message to the return of the
\* callback from its second delivery the catalog does not change and the
\* scheduler does not tick.
EventNext ==
    \/ /\ Quiet
       /\ \/ UpdateEnter(UpdateClient)
          \/ UpdateFetch(UpdateClient)
          \/ UpdateAdd(UpdateClient)
          \/ DropEnter(UpdateClient)
          \/ DropStore(UpdateClient)
          \/ Publish(UpdateClient)
          \/ Return(UpdateClient)
          \/ SchedulerStart
          \/ Tick
    \/ Subscribe
    \/ DeliveredTwice
    \/ Callback
    \/ \E u \in Indexers :
        \/ IndexLock(u)
        \/ UpdateIndexRead(u)
        \/ IndexClear(u)
        \/ UpdateIndexAppend(u)
        \/ IndexReturn(u)

SpecEvent == Init /\ [][EventNext]_allVars

\* ------------------------------------------------------------------ search: the index lock

\* The table of some entries.
TableOf(entries) ==
    [id \in {c.ID : c \in entries} |->
        LET c == CHOOSE c \in entries : c.ID = id
        IN  [url |-> c.URL, words |-> c.Words]]

\* The search service is constructed beside a catalog that Update has
\* filled, or not, before.
LockInit ==
    /\ inProgress = FALSE
    /\ \E entries \in SUBSET Served : comics = TableOf(entries)
    /\ comics_stats = StatsOf(comics)
    /\ call = [p \in Callers |-> NoCall]
    /\ broker = NoSubscription
    /\ service = "down"
    /\ index = EmptyIndex
    /\ lock = Unlocked
    /\ indexer = [u \in Indexers |-> NoIndexing]
    /\ search = [s \in Searchers |-> NoSearch]
    /\ sem = 0
    /\ request = [r \in Requests |-> NoRequest]
    /\ clock = 0
    /\ waiter = [r \in Waiters |-> NoWait]
    /\ rank = NoRank
    /\ rl = NewRateLimiter(MaxRate)

\* A message with any payload arrives at the subscription.
EventArrives ==
    /\ broker.subscribed
    /\ Len(broker.pending) < MaxPending
    /\ \E event \in Payloads :
        broker' = [broker EXCEPT !.pending =
            Append(@, [event |-> event, ids |-> {}, copy |-> 0, first |-> NotHandled])]
    /\ UNCHANGED <<vars, service, index, lock, indexer, search, rank, gateway>>

\* ISearch, line 172: the call; its first statement, s.lock.RLock(), is
\* next.
ISearchEnter(s) ==
    /\ service = "serving"
    /\ search[s].pc = "idle"
    /\ \E phrase \in Phrases, limit \in Limits :
        search' = [search EXCEPT ![s] =
            [NoSearch EXCEPT !.pc = "rlock", !.op = "ISearch", !.phrase = phrase,
                             !.limit = limit]]
    /\ UNCHANGED <<vars, broker, service, index, lock, indexer, rank, gateway>>

\* ISearch, lines 173-178: s.lock.RLock() returns, the RUnlock is
\* deferred, and the arguments are validated.
ISearchRLocked(s) ==
    /\ search[s].pc = "rlock"
    /\ CanRLock(lock)
    /\ lock' = [lock EXCEPT !.readers = @ \cup {s}]
    /\ search' = [search EXCEPT ![s] =
            IF Refused(@.phrase, @.limit)
            THEN [@ EXCEPT !.pc = "done", !.err = "ErrBadArguments"]
            ELSE [@ EXCEPT !.pc = "norm"]]
    /\ UNCHANGED <<vars, broker, service, index, indexer, rank, gateway>>

\* The users of the index lock: the callback of the subscription, the
\* scheduler and the ISearch of a client, each with the step at which it
\* waits for the lock.
LockNext ==
    \/ Subscribe
    \/ SchedulerStart
    \/ EventArrives
    \/ Callback
    \/ Tick
    \/ \E u \in Indexers :
        \/ IndexLock(u)
        \/ UpdateIndexRead(u)
        \/ IndexClear(u)
        \/ UpdateIndexAppend(u)
        \/ IndexReturn(u)
    \/ \E s \in Searchers :
        \/ ISearchEnter(s)
        \/ ISearchRLocked(s)
        \/ SearchNorm(s)
        \/ ISearchLookup(s)
        \/ SearchReturn(s)

SpecLock == LockInit /\ [][LockNext]_allVars

\* sync.RWMutex: a writer that waits keeps later readers out and gets the
\* lock when the readers that hold it have left, and the readers that wait
\* for a writer get the lock when it unlocks, so that a Lock or RLock that
\* can proceed again and again does proceed; the calls made under the lock
\* (words.Norm and the queries of the store) return.
LockFairness ==
    /\ \A u \in Indexers :
        /\ SF_allVars(IndexLock(u))
        /\ WF_allVars(UpdateIndexRead(u))
        /\ WF_allVars(IndexClear(u))
        /\ WF_allVars(UpdateIndexAppend(u))
        /\ WF_allVars(IndexReturn(u))
    /\ \A s \in Searchers :
        /\ SF_allVars(ISearchRLocked(s))
        /\ WF_allVars(SearchNorm(s))
        /\ WF_allVars(ISearchLookup(s))
        /\ WF_allVars(SearchReturn(s))

SpecLockFair == SpecLock /\ LockFairness

\* ------------------------------------------------------------------ gateway: concurrency.go

\* A channel that takes every send.
AlwaysSend(n) == TRUE

\* ConcurrencyLimiter.Limit, line 18: the send `cl.sem <- struct{}{}` can
\* proceed when the channel holds fewer elements than its capacity.
CanSend(n) == n < SearchConcurrency

\* ConcurrencyLimiter.Limit, lines 17-23: the select.  With the slot the
\* handler is called; without it the request is answered 503.
ConcurrencyLimit(r) ==
    /\ request[r].pc = "new"
    /\ IF CanSend(sem)
       THEN /\ sem' = sem + 1
            /\ request' = [request EXCEPT ![r].pc = "serving"]
       ELSE /\ sem' = sem
            /\ request' = [request EXCEPT ![r].pc = "rejected"]
    /\ UNCHANGED <<vars, broker, searchVars, rank, rl, clock, waiter>>

\* A slot that a panic of the handler keeps.
ReleasedOnReturnOnly(n, how) == IF how = "panicked" THEN n ELSE n - 1

\* ConcurrencyLimiter.Limit, line 19: the deferred `<-cl.sem` runs when
\* the function returns and when it panics.
Deferred(n, how) == n - 1

\* ConcurrencyLimiter.Limit, lines 19-20: next.ServeHTTP returns or
\* panics, and the deferred receive runs.
HandlerReturns(r) ==
    /\ request[r].pc = "serving"
    /\ \E how \in {"ok", "panicked"} :
        /\ request' = [request EXCEPT ![r].pc = how]
        /\ sem' = Deferred(sem, how)
    /\ UNCHANGED <<vars, broker, searchVars, rank, rl, clock, waiter>>

LimitNext == \E r \in Requests : ConcurrencyLimit(r) \/ HandlerReturns(r)

SpecLimit == Init /\ [][LimitNext]_allVars

\* ------------------------------------------------------------------ gateway: the rate limiter

Max(a, b) == IF a > b THEN a ELSE b

\* Limit.tokensFromDuration, lines 124-129, times TicksPerSecond: d ticks
\* are d / TicksPerSecond seconds.
tokensFromDuration(limit, d) == IF limit <= 0 THEN 0 ELSE d * limit

\* A limiter that never lets anybody through.
NeverDue(limit, tokens) == Forever

\* A limiter that makes nobody wait.
DueAtOnce(limit, tokens) == 0

\* Limit.durationFromTokens, lines 116-122, in ticks, of tokens *
\* TicksPerSecond; the conversion to time.Duration truncates.
durationFromTokens(limit, tokens) ==
    IF limit <= 0 THEN Forever ELSE tokens \div limit

\* A bucket without a brim.
tokensUnclamped(l, t) ==
    l.tokens + tokensFromDuration(l.limit, Max(t - l.last, 0))

\* RateLimiter.tokensAt, lines 98-114, times TicksPerSecond.  limit is
\* Limit(rate) of an int and never Inf.
tokensAt(l, t) ==
    LET elapsed == Max(t - l.last, 0)
        delta == tokensFromDuration(l.limit, elapsed)
        tokens == l.tokens + delta
        burst == l.burst * TicksPerSecond
    IN  IF tokens > burst THEN burst ELSE tokens

HasDeadline(w) == w.deadline # NoDeadline

\* ctx.Done() can be closed: the context was cancelled or its deadline has
\* passed.
Done(w) == w.cancelled \/ (HasDeadline(w) /\ clock >= w.deadline)

\* RateLimiter.Limit, lines 42-43, and wait, lines 52-60: a request
\* arrives with its context; wait reads the limit and returns ctx.Err()
\* when it finds the context done.  A deadline that has just passed may
\* not have closed Done yet.
WaitEnter(r) ==
    /\ waiter[r].pc = "idle"
    /\ clock <= ArriveBy
    /\ \E timeout \in Timeouts, seen \in BOOLEAN :
        LET deadline == IF timeout = NoDeadline THEN NoDeadline ELSE clock + timeout
        IN  waiter' = [waiter EXCEPT ![r] =
                [NoWait EXCEPT !.deadline = deadline,
                               !.pc = IF timeout = 0 /\ seen THEN "refused"
                                                             ELSE "reserve"]]
    /\ UNCHANGED <<vars, broker, searchVars, rank, sem, request, rl, clock>>

\* The client goes away: the context of the request is cancelled.
Cancel(r) ==
    /\ waiter[r].pc \in {"reserve", "timer"}
    /\ ~waiter[r].cancelled
    /\ waiter' = [waiter EXCEPT ![r].cancelled = TRUE]
    /\ UNCHANGED <<vars, broker, searchVars, rank, sem, request, rl, clock>>

\* A refusal that takes its token all the same.
TakenAnyway(brought) == brought - TicksPerSecond

\* wait, lines 64 and 73-77: a request turned away for its deadline leaves
\* in rl.tokens what tokensAt returned; line 80 is not reached.
tokensOnRefusal(brought) == brought

\* wait, lines 62-85, under rl.mu: the bucket is brought to now and one
\* token is reserved, unless the deadline comes before now.Add(delay).
\* Without a delay wait returns nil.
Reserve(r) ==
    /\ waiter[r].pc = "reserve"
    /\ LET now == clock
           brought == tokensAt(rl, now)
           tokens == brought - TicksPerSecond
           delay == IF tokens < 0 THEN durationFromTokens(rl.limit, 0 - tokens) ELSE 0
       IN  IF HasDeadline(waiter[r]) /\ now + delay > waiter[r].deadline
           THEN /\ rl' = [rl EXCEPT !.tokens = tokensOnRefusal(brought), !.last = now]
                /\ waiter' = [waiter EXCEPT ![r].pc = "exceeded",
                                            ![r].due = now + delay]
           ELSE /\ rl' = [rl EXCEPT !.tokens = tokens, !.last = now]
                /\ waiter' = [waiter EXCEPT
                        ![r].pc = IF delay <= 0 THEN "granted" ELSE "timer",
                        ![r].due = now + delay]
    /\ UNCHANGED <<vars, broker, searchVars, rank, sem, request, clock>>

\* wait, lines 90-92: the timer has fired and wait returns nil.  A timer
\* fires no sooner than its delay after it was made.
TimerFires(r) ==
    /\ waiter[r].pc = "timer"
    /\ clock >= waiter[r].due
    /\ waiter' = [waiter EXCEPT ![r].pc = "granted"]
    /\ UNCHANGED <<vars, broker, searchVars, rank, sem, request, rl, clock>>

\* wait, lines 93-94, and Limit, lines 43-45: the context is done while
\* the request waits; it is answered 408.
WaitCancelled(r) ==
    /\ waiter[r].pc = "timer"
    /\ Done(waiter[r])
    /\ waiter' = [waiter EXCEPT ![r].pc = "timedout"]
    /\ UNCHANGED <<vars, broker, searchVars, rank, sem, request, rl, clock>>

\* Limit, line 47: wait returned nil and the handler is called.
Serve(r) ==
    /\ waiter[r].pc = "granted"
    /\ waiter' = [waiter EXCEPT ![r].pc = "admitted", ![r].at = clock]
    /\ UNCHANGED <<vars, broker, searchVars, rank, sem, request, rl, clock>>

\* Time passes: up to Horizon, and on until the timers that are to fire
\* are due.
Advance ==
    /\ \/ clock < Horizon
       \/ \E r \in Waiters :
            waiter[r].pc = "timer" /\ clock < waiter[r].due /\ waiter[r].due <= Latest
    /\ clock' = clock + 1
    /\ UNCHANGED <<vars, broker, searchVars, rank, sem, request, rl, waiter>>

\* main of the gateway, line 67: NewRateLimiter(cfg.Limits.SearchRate).
RateInit ==
    /\ Constructed
    /\ rank = NoRank
    /\ \E rate \in Rates : rl = NewRateLimiter(rate)

RateNext ==
    \/ Advance
    \/ \E r \in Waiters :
        \/ WaitEnter(r)
        \/ Cancel(r)
        \/ Reserve(r)
        \/ TimerFires(r)
        \/ WaitCancelled(r)
        \/ Serve(r)

SpecRate == RateInit /\ [][RateNext]_allVars

\* The goroutine of every request gets to run, every timer that is due
\* gets to fire, a select with a closed Done channel returns, and time
\* goes on.
RateFairness ==
    /\ WF_allVars(Advance)
    /\ \A r \in Waiters :
        /\ WF_allVars(Reserve(r))
        /\ WF_allVars(TimerFires(r))
        /\ WF_allVars(WaitCancelled(r))
        /\ WF_allVars(Serve(r))

SpecRateFair == RateInit /\ [][RateNext]_allVars /\ RateFairness

\* ------------------------------------------------------------------ gateway: the admin endpoints

\* core.ErrAlreadyExists and core.ErrServiceUnavailable of the gateway
\* (api/core), and an error that is neither: a status error of the RPC.
ApiErrAlreadyExists == "api: resource or task already exists"

ApiErrServiceUnavailable == "api: service unavailable"

StatusError(code) == <<"rpc error", code>>

\* Server.Update, update/adapters/grpc/server.go lines 40-49: the code of
\* the status the RPC returns for the error of Service.Update.
ServerUpdate(err) ==
    IF err = NoErr THEN "OK"
    ELSE IF err = ErrAlreadyExists THEN "AlreadyExists"
    ELSE "Internal"

\* Server.Drop, lines 64-69: every error of Service.Drop is codes.Internal.
ServerDrop(err) == IF err = NoErr THEN "OK" ELSE "Internal"

\* Client.Update, api/adapters/update/update.go lines 97-110.
ClientUpdate(code) ==
    IF code = "OK" THEN NoErr
    ELSE IF code = "Unavailable" THEN ApiErrServiceUnavailable
    ELSE IF code = "AlreadyExists" THEN ApiErrAlreadyExists
    ELSE StatusError(code)

\* Client.Drop, lines 112-120.
ClientDrop(code) ==
    IF code = "OK" THEN NoErr
    ELSE IF code = "Unavailable" THEN ApiErrServiceUnavailable
    ELSE StatusError(code)

\* NewUpdateHandler, lines 320-336: the status of the answer; without an
\* error nothing is written, which net/http sends as 200.
NewUpdateHandler(err) ==
    IF err = NoErr THEN 200
    ELSE IF err = ApiErrServiceUnavailable THEN 503
    ELSE IF err = ApiErrAlreadyExists THEN 202
    ELSE 500

\* NewDropHandler, lines 338-354.
NewDropHandler(err) ==
    IF err = NoErr THEN 200
    ELSE IF err = ApiErrServiceUnavailable THEN 503
    ELSE IF err = ApiErrAlreadyExists THEN 202
    ELSE 500

\* What the gateway answers to POST /api/db/update or DELETE /api/db when
\* the call of the Updater it makes returns err.
Answer(op, err) ==
    IF op = "Update" THEN NewUpdateHandler(ClientUpdate(ServerUpdate(err)))
                     ELSE NewDropHandler(ClientDrop(ServerDrop(err)))

\* ------------------------------------------------------------------ gateway: the authenticator

\* auth.go, lines 13-16, and the configuration of NewJwtAuthenticator.
tokenPrefix == "Token "

validSubject == "superuser"

adminUser == "admin"

adminPassword == "password"

jwtSecret == "your-secret-key"

ErrInvalidCredentials == "invalid credentials"

\* A token without the exp claim.
NoExp == 0 - 1

\* A string that is not a token: "", "invalid.token.string".
Malformed == [alg |-> "", key |-> "", sub |-> "", exp |-> NoExp]

\* jwt.NewNumericDate: the time cut down to jwt.TimePrecision, a second.
NewNumericDate(t) == t - (t % TicksPerSecond)

\* JwtAuthenticator.CreateToken, lines 34-48: the signed claims; alg and
\* key stand for what the signature was made with.
CreateToken(name, password, now) ==
    IF name # adminUser \/ password # adminPassword
    THEN [token |-> Malformed, err |-> ErrInvalidCredentials]
    ELSE [token |-> [alg |-> "HS256", key |-> jwtSecret, sub |-> validSubject,
                     exp |-> NewNumericDate(now + ttl)],
          err |-> NoErr]

\* A validation that does not look at exp.
ValidateForever(token, now) ==
    IF token = Malformed THEN ErrInvalidCredentials
    ELSE IF token.alg # "HS256" \/ token.key # jwtSecret THEN ErrInvalidCredentials
    ELSE IF token.sub # validSubject THEN ErrInvalidCredentials
    ELSE NoErr

\* JwtAuthenticator.ValidateToken, lines 50-68.  jwt.Parse fails for a
\* string that is no token, for a method other than HS256, for a wrong
\* signature and for an exp claim that now is not before.
ValidateToken(token, now) ==
    IF token = Malformed THEN ErrInvalidCredentials
    ELSE IF token.alg # "HS256" THEN ErrInvalidCredentials
    ELSE IF token.key # jwtSecret THEN ErrInvalidCredentials
    ELSE IF token.exp # NoExp /\ ~(now < token.exp) THEN ErrInvalidCredentials
    ELSE IF token.sub # validSubject THEN ErrInvalidCredentials
    ELSE NoErr

\* A request without Authorization header, and one without jwt_token cookie.
NoHeader == [prefix |-> "", token |-> Malformed]

NoCookie == [set |-> FALSE, token |-> Malformed]

\* JwtAuthenticator.CheckToken, lines 70-95: whether next is called.
CheckToken(header, cookie, now) ==
    LET found == header.prefix = tokenPrefix
    IN  IF ~found /\ ~cookie.set THEN FALSE
        ELSE LET token == IF found THEN header.token ELSE cookie.token
             IN  ValidateToken(token, now) = NoErr

\* Tokens that CreateToken has not made: no token at all, one signed with
\* another key, one with another method, one for another subject, and one
\* of the right key and subject that has expired.
Forged ==
    { Malformed,
      [alg |-> "HS256", key |-> "invalid signature", sub |-> validSubject, exp |-> NoExp],
      [alg |-> "HS384", key |-> jwtSecret, sub |-> validSubject, exp |-> NoExp],
      [alg |-> "HS256", key |-> jwtSecret, sub |-> "user", exp |-> NoExp],
      [alg |-> "HS256", key |-> jwtSecret, sub |-> validSubject, exp |-> 0] }

\* The clients of the admin endpoints: those that call Update and Drop.
Admins == Callers

\* The tokens client r can present: forged ones and the one it was given.
Presentable(r) ==
    Forged \cup (IF request[r].pc = "token" THEN {request[r].token} ELSE {})

\* The codes an RPC of the Updater can end with: those the server returns
\* for the errors of the service, and Unavailable from the transport.
UpdaterErrors == {NoErr, ErrAlreadyExists, ErrIDs, ErrLastID, ErrAdd, ErrDrop}

RpcCodes(op) ==
    { IF op = "Update" THEN ServerUpdate(err) ELSE ServerDrop(err) : err \in UpdaterErrors }
        \cup {"Unavailable"}

\* NewLoginHandler, update.go lines 175-196: POST /api/login.
Login(r) ==
    /\ request[r].pc = "new"
    /\ clock <= ArriveBy
    /\ \E name \in {adminUser, "invalid_user"}, password \in {adminPassword, "invalid_password"} :
        LET made == CreateToken(name, password, clock)
        IN  request' = [request EXCEPT ![r] =
                IF made.err # NoErr THEN [pc |-> "unauthorized"]
                ELSE [pc |-> "token", token |-> made.token, issued |-> clock]]
    /\ UNCHANGED <<vars, broker, searchVars, rank, sem, rl, clock, waiter>>

\* The Authorization headers and the jwt_token cookies client r can send.
Headers(r) ==
    {NoHeader} \cup [prefix : {tokenPrefix, "Bearer "}, token : Presentable(r)]

Cookies(r) == {NoCookie} \cup [set : {TRUE}, token : Presentable(r)]

\* POST /api/db/update and DELETE /api/db, part_015 lines 83-84: CheckToken
\* in front of NewUpdateHandler and NewDropHandler.  CheckToken keeps no
\* state and the requests do not meet in it: one of them is followed.
AdminRequest(r) ==
    /\ request[r].pc \in {"new", "token"}
    /\ \A q \in Admins \ {r} : request[q].pc # "answered"
    /\ \E op \in {"Update", "Drop"}, header \in Headers(r), cookie \in Cookies(r) :
        LET passed == CheckToken(header, cookie, clock)
        IN  \E code \in IF passed THEN RpcCodes(op) ELSE {"none"} :
                request' = [request EXCEPT ![r] =
                    [pc |-> "answered", op |-> op, header |-> header, cookie |-> cookie,
                     at |-> clock, called |-> passed,
                     status |-> IF ~passed THEN 401
                                ELSE IF op = "Update" THEN NewUpdateHandler(ClientUpdate(code))
                                ELSE NewDropHandler(ClientDrop(code))]]
    /\ UNCHANGED <<vars, broker, searchVars, rank, sem, rl, clock, waiter>>

AuthNext ==
    \/ Advance
    \/ \E r \in Admins : Login(r) \/ AdminRequest(r)

SpecAuth == Init /\ [][AuthNext]_allVars

\* ------------------------------------------------------------------ Stats beside Update and Drop

ErrStats == "failed to get database stats"

\* A Stats that is turned away while Update or Drop runs.
StatsWhenIdle(busy) == ~busy

\* Service.Stats, service.go lines 39-58, does not read s.inProgress: it
\* goes on whatever the flag is.
StatsGoesOn(busy) == TRUE

\* DB.Stats, storage.go lines 105-112: the row of comics_stats, or a
\* failure of the query.  The query reads one row that Update and Drop
\* only UPDATE, and so does not wait for their transactions.
DBStats(row) == {[err |-> NoErr, stats |-> row], [err |-> ErrStats, stats |-> ZeroStats]}

\* Service.Stats, lines 39-58: what it returns for the answers of db.Stats
\* and xkcd.LastID.
ServiceStats(db, last) ==
    IF db.err # NoErr THEN [err |-> ErrStats, stats |-> ZeroStats, comics_total |-> 0]
    ELSE IF last.err # NoErr THEN [err |-> ErrLastID, stats |-> ZeroStats, comics_total |-> 0]
    ELSE [err |-> NoErr, stats |-> db.stats, comics_total |-> last.id]

\* What xkcd.LastID answers to Stats: the last id of the upstream, or one of
\* its failures.
StatsLastID == {reply \in XkcdLastID : reply.err = NoErr => reply.id = MaxID}

\* The frame in which the call of Stats is followed.
StatsFrame == CHOOSE r \in Requests : \A q \in Requests : r <= q

\* A call of Stats from beginning to end; busy remembers the flag it met.
StatsCall ==
    /\ StatsGoesOn(inProgress)
    /\ \E db \in DBStats(comics_stats), last \in StatsLastID :
        request' = [request EXCEPT ![StatsFrame] =
            [pc |-> "stats", busy |-> inProgress, reply |-> ServiceStats(db, last)]]
    /\ UNCHANGED <<vars, broker, searchVars, rank, sem, rl, clock, waiter>>

StatsNext == Next \/ StatsCall

SpecStats == Init /\ [][StatsNext]_allVars

\* ------------------------------------------------------------------ words.Norm on its own

\* The runes of the phrases: letters in both cases, a decimal digit, the
\* vulgar fraction one half (a number that is no digit), a space and a
\* punctuation mark.
Letters == {"b", "B", "i", "I"}

Digits == {"1"}

Numbers == Digits \cup {"1/2"}

Runes == Letters \cup Numbers \cup {" ", "!"}

\* unicode.IsLetter and unicode.IsNumber on these runes.
IsLetter(c) == c \in Letters

IsNumber(c) == c \in Numbers

\* words.go, lines 11-13: the function handed to strings.FieldsFunc.
Separates(c) == ~IsLetter(c) /\ ~IsNumber(c)

\* strings.FieldsFunc: the maximal runs of runes that do not separate;
\* field is the run being read.
RECURSIVE FieldsFrom(_, _)
FieldsFrom(phrase, field) ==
    IF phrase = <<>> THEN (IF field = <<>> THEN <<>> ELSE <<field>>)
    ELSE IF Separates(Head(phrase))
         THEN (IF field = <<>> THEN <<>> ELSE <<field>>) \o FieldsFrom(Tail(phrase), <<>>)
         ELSE FieldsFrom(Tail(phrase), Append(field, Head(phrase)))

FieldsFunc(phrase) == FieldsFrom(phrase, <<>>)

\* english.Stem(word, true) on words of these runes: the stemmer puts the
\* word in lower case and finds no suffix to take off.
ToLower(c) == IF c = "B" THEN "b" ELSE IF c = "I" THEN "i" ELSE c

englishStem(word) == [k \in 1..Len(word) |-> ToLower(word[k])]

\* english.IsStopWord on words of these runes: "i" is in the list.
englishIsStopWord(word) == word = <<"i">>

\* A loop that looks up the word, not its stem, in dict.
KeywordByWord(filteredSeq, keywords, dict) ==
    LET stemmed == englishStem(Head(filteredSeq))
    IN  IF ~englishIsStopWord(stemmed) /\ Head(filteredSeq) \notin dict
        THEN [keywords |-> Append(keywords, stemmed), dict |-> dict \cup {Head(filteredSeq)}]
        ELSE [keywords |-> keywords, dict |-> dict]

\* words.go, lines 17-21: one turn of the loop, for the first of
\* filteredSeq.
Keyword(filteredSeq, keywords, dict) ==
    LET stemmed == englishStem(Head(filteredSeq))
    IN  IF ~englishIsStopWord(stemmed) /\ stemmed \notin dict
        THEN [keywords |-> Append(keywords, stemmed), dict |-> dict \cup {stemmed}]
        ELSE [keywords |-> keywords, dict |-> dict]

\* words.go, lines 14-23: the loop.
RECURSIVE Keywords(_, _, _)
Keywords(filteredSeq, keywords, dict) ==
    IF filteredSeq = <<>> THEN keywords
    ELSE LET turn == Keyword(filteredSeq, keywords, dict)
         IN  Keywords(Tail(filteredSeq), turn.keywords, turn.dict)

\* words.Norm, lines 10-24, on a phrase of runes.
NormOfRunes(phrase) == Keywords(FieldsFunc(phrase), <<>>, {})

\* The phrases of at most MaxRunes runes.
Texts == UNION {[1..n -> Runes] : n \in 0..MaxRunes}

\* A call of Norm.
NormInit ==
    /\ Constructed
    /\ rl = NewRateLimiter(MaxRate)
    /\ rank \in [pc : {"call"}, phrase : Texts, keywords : {<<>>}]

NormCall ==
    /\ rank.pc = "call"
    /\ rank' = [rank EXCEPT !.pc = "done", !.keywords = NormOfRunes(rank.phrase)]
    /\ UNCHANGED <<vars, broker, searchVars, gateway>>

SpecNorm == NormInit /\ [][NormCall]_allVars

\* ------------------------------------------------------------------ the whole Update beside the search service

\* UpdateIndex, lines 240-244: the two loops over the rows read.
RECURSIVE BuildIndex(_, _)
BuildIndex(idx, rows) ==
    IF rows = <<>> THEN idx
    ELSE BuildIndex(AppendPostings(idx, Head(rows).ID, Head(rows).Words), Tail(rows))

\* UpdateIndex, lines 222-246, as one step: it holds the write lock from its
\* first statement to its return, so that no ISearch sees the index in
\* between, and it reads the catalog once.
Rebuild ==
    /\ \E reply \in GetAllComicsInfo(comics) :
        index' = IF reply.err # NoErr THEN AfterFailedRead(index, reply.err)
                 ELSE BuildIndex(EmptyIndex, reply.rows)
    /\ UNCHANGED <<vars, broker, service, lock, indexer, search, rank, gateway>>

\* Search, lines 94-120, and ISearch, lines 172-220, as one step, taken
\* when the call reads the catalog: it is the one read of the catalog the
\* call makes, and the index does not change while ISearch holds the read
\* lock.  The frame is left for SearchReturn.
Query(s) ==
    \E op \in {"Search", "ISearch"}, phrase \in Phrases, limit \in Limits :
        /\ search[s].pc = "idle"
        /\ ~Refused(phrase, limit)
        /\ \E norm \in WordsNorm(phrase) :
            LET frame == [NoSearch EXCEPT !.pc = "done", !.op = op, !.phrase = phrase,
                                          !.limit = limit, !.called = {"words"}]
            IN  IF norm.err # NoErr
                THEN search' = [search EXCEPT ![s] =
                        [frame EXCEPT !.err = "failed to normalized phrase"]]
                ELSE \E ranked \in
                        IF op = "Search"
                        THEN UNION { rankedSearch(reply.rows, Range(norm.words), limit) :
                                       reply \in {r \in GetAllComicsInfo(comics) :
                                                    r.err = NoErr} }
                        ELSE UNION { rankedByScore(index, norm.words, reply.rows, limit) :
                                       reply \in {r \in GetComicsByIds(comics,
                                                        uniqueIDs(index, norm.words)) :
                                                    r.err = NoErr} } :
                     search' = [search EXCEPT ![s] =
                        [frame EXCEPT !.keywords = norm.words, !.comics = ranked,
                                      !.called = {"words", "db"}]]
        /\ UNCHANGED <<vars, broker, service, index, lock, indexer, rank, gateway>>

\* Update and Drop with their workers, the rebuilds of the index and the
\* queries of the clients.
WholeNext ==
    \/ UpdateEnter(UpdateClient)
    \/ DropEnter(UpdateClient)
    \/ UpdateIDs(UpdateClient)
    \/ UpdateLastID(UpdateClient)
    \/ \E w \in Workers : WorkerTake(UpdateClient, w)
    \/ \E w \in Workers : WorkerDo(UpdateClient, w)
    \/ UpdateCollect(UpdateClient)
    \/ UpdateAdd(UpdateClient)
    \/ DropStore(UpdateClient)
    \/ Publish(UpdateClient)
    \/ Return(UpdateClient)
    \/ Rebuild
    \/ \E s \in Searchers : Query(s) \/ SearchReturn(s)

SpecWhole == Init /\ [][WholeNext]_allVars

\* ------------------------------------------------------------------ rankedSearch on its own

\* The keywords of the catalogs and phrases handed to rankedSearch.
RankVocabulary == {"follow", "car", "tree"}

\* The words of a row: what words.Norm returned for it (no keyword twice),
\* or none (the row of TombstoneID).
RankWords == {<<>>, <<"follow">>, <<"follow", "car">>, <<"car", "tree">>}

\* The catalogs GetAllComicsInfo can return: rows with distinct ids, in any
\* order.
RankCatalogs ==
    UNION { { rows \in [1..n -> [ID : 1..MaxRows, URL : {"img"}, Words : RankWords]] :
                \A i, j \in 1..n : i # j => rows[i].ID # rows[j].ID }
            : n \in 0..MaxRows }

\* A call of rankedSearch by Search.
RankInit ==
    /\ Constructed
    /\ rl = NewRateLimiter(MaxRate)
    /\ rank \in [pc : {"call"}, comicsInfo : RankCatalogs,
                 setOfPhrase : SUBSET RankVocabulary, limit : 1..MaxLimit,
                 comics : {<<>>}]

RankedSearch ==
    /\ rank.pc = "call"
    /\ \E ranked \in rankedSearch(rank.comicsInfo, rank.setOfPhrase, rank.limit) :
        rank' = [rank EXCEPT !.pc = "done", !.comics = ranked]
    /\ UNCHANGED <<vars, broker, searchVars, gateway>>

SpecRank == RankInit /\ [][RankedSearch]_allVars

\* ------------------------------------------------------------------ properties

\* Caller p is in a call that was turned away by the compare-and-swap.
Rejected(p) == call[p].pc = "return" /\ call[p].err = ErrAlreadyExists

\* Caller p is between its successful compare-and-swap and its release.
Holding(p) == call[p].pc # "idle" /\ ~Rejected(p)

Holders == {p \in Callers : Holding(p)}

\* C1: at every instant at most one Update or Drop call is between its
\* successful compare-and-swap and its release, and the flag is set while
\* one is; a call that does its compare-and-swap while in_progress is true
\* is not queued: its next position is the return of AlreadyInProgress.
C1_AtMostOneHolder ==
    /\ [](Cardinality(Holders) <= 1 /\ (Holders # {} => inProgress))
    /\ [][\A p \in Callers :
            (call[p].pc = "idle" /\ call'[p].pc # "idle" /\ inProgress)
                => (call'[p].pc = "return" /\ call'[p].err = ErrAlreadyExists)]_vars

\* One call holds the flag while another has just been turned away.
C1_Witness ==
    \E p, q \in Callers : p # q /\ Holding(p) /\ Rejected(q)

\* What the call of p made of the catalog it started on, once its storage
\* step succeeded.
OwnComics(p) ==
    IF call[p].op = "Drop" THEN EmptyComics
    ELSE InsertComic(call[p].before.comics, call[p].comics)

\* C2: of two calls in progress at the same time at least one is turned away
\* with AlreadyInProgress; the turned-away call has read nothing, stored
\* nothing and published nothing, its return changes neither the flag nor
\* the catalog, and the catalog is what the winning call alone made of the
\* catalog it started on.
C2_LoserLeavesNoTrace ==
    /\ [](\A p, q \in Callers :
            (p # q /\ call[p].pc # "idle" /\ call[q].pc # "idle")
                => (Rejected(p) \/ Rejected(q)))
    /\ [](\A q \in Callers :
            Rejected(q) =>
                /\ call[q].exists = {} /\ call[q].submitted = {}
                /\ ~call[q].stored /\ call[q].pubs = <<>>)
    /\ [](\A p \in Callers :
            Holding(p) =>
                /\ (~call[p].stored \/ call[p].err # NoErr) =>
                      (comics = call[p].before.comics /\ comics_stats = call[p].before.stats)
                /\ (call[p].stored /\ call[p].err = NoErr) => comics = OwnComics(p))
    /\ [][\A q \in Callers :
            (Rejected(q) /\ call'[q].pc = "idle")
                => UNCHANGED <<inProgress, comics, comics_stats>>]_vars

\* A call is turned away while the winner has already stored its batch.
C2_Witness ==
    \E p, q \in Callers :
        /\ p # q /\ Rejected(q) /\ Holding(p)
        /\ call[p].op = "Update" /\ call[p].stored /\ call[p].err = NoErr
        /\ comics # call[p].before.comics

\* C3: Status answers running exactly when some Update or Drop has won the
\* compare-and-swap and has not returned, else idle; so after a return on
\* any exit path, with no call left, Status is idle.
C3_StatusRunningIffHolding ==
    /\ Status \in {StatusRunning, StatusIdle}
    /\ (Status = StatusRunning) <=> (Holders # {})
    /\ (Holders = {}) => CompareAndSwap(inProgress, FALSE, TRUE).swapped

\* A call that fails in storage is about to return while Status is running.
C3_Witness ==
    \E p \in Callers :
        /\ call[p].pc = "return" /\ call[p].err \in {ErrAdd, ErrDrop, ErrIDs, ErrLastID}
        /\ Status = StatusRunning

\* Caller p is in an Update that won the flag and is about to return err.
UpdateReturns(p, err) ==
    call[p].op = "Update" /\ call[p].pc = "return" /\ call[p].err = err

\* Caller p is in a Drop that won the flag and is about to return err.
DropReturns(p, err) ==
    call[p].op = "Drop" /\ call[p].pc = "return" /\ call[p].err = err

\* The ids of 1..N that are absent from the id set S (N and S as the call of
\* p read them).
Missing(p) ==
    {id \in ModelledIDs : id <= call[p].lastID /\ id \notin call[p].exists}

C5_StatsAreAggregate ==
    /\ comics_stats.comics_fetched = Cardinality(DOMAIN comics)
    /\ comics_stats.words_total =
            Cardinality(UNION {{<<id, i>> : i \in 1..Len(comics[id].words)}
                                : id \in DOMAIN comics})
    /\ comics_stats.words_unique =
            Cardinality(UNION {{comics[id].words[i] : i \in 1..Len(comics[id].words)}
                                : id \in DOMAIN comics})

\* A catalog in which a keyword occurs in two entries, after a failed Add.
C5_Witness ==
    /\ comics_stats.comics_fetched >= 2
    /\ comics_stats.words_unique < comics_stats.words_total
    /\ \E p \in Callers : UpdateReturns(p, ErrAdd)

\* C6: a Drop publishes only after its truncation is committed; when it
\* returns success the catalog is empty, the stats row is (0,0,0) and it has
\* called Publish exactly once, with the reset event; when its storage step
\* failed it returns an error, the catalog and the stats are as before and
\* it has called Publish not at all.
C6_DropEmptiesOrLeaves ==
    \A p \in Callers :
        (call[p].op = "Drop" /\ Holding(p)) =>
            /\ call[p].pc \in {"drop", "publish", "return"}
            /\ call[p].pc = "drop" => call[p].pubs = <<>>
            /\ call[p].pc = "publish" =>
                  (comics = EmptyComics /\ comics_stats = ZeroStats /\ call[p].pubs = <<>>)
            /\ call[p].pc = "return" => call[p].err \in {NoErr, ErrDrop}
            /\ DropReturns(p, NoErr) =>
                  /\ comics = EmptyComics
                  /\ comics_stats = [comics_fetched |-> 0, words_total |-> 0,
                                      words_unique |-> 0]
                  /\ Len(call[p].pubs) = 1
                  /\ call[p].pubs[1].event = EventReset
            /\ DropReturns(p, ErrDrop) =>
                  /\ comics = call[p].before.comics
                  /\ comics_stats = call[p].before.stats
                  /\ call[p].pubs = <<>>

\* A successful Drop of a catalog that had entries.
C6_Witness ==
    \E p \in Callers :
        DropReturns(p, NoErr) /\ call[p].before.comics # EmptyComics

\* C7: an Update writes nothing to the catalog while results are still being
\* collected; db.Add fails, and leaves catalog and stats as they were,
\* whichever of its steps fails; and an Update that returns the storage error
\* has left the catalog and the stats as they were before it.
C7_AddAllOrNothing ==
    \A p \in Callers :
        /\ (call[p].op = "Update" /\ Holding(p) /\ call[p].pc \in {"ids", "lastid", "collect"})
              => (~call[p].stored
                  /\ comics = call[p].before.comics
                  /\ comics_stats = call[p].before.stats)
        /\ (call[p].op = "Update" /\ call[p].stored)
              => (call[p].received = call[p].jobCount
                  /\ call[p].results = <<>>
                  /\ \A w \in Workers : call[p].workers[w].at = "recv")
        /\ (call[p].pc = "collect" /\ call[p].received = call[p].jobCount)
              => \A fault \in DBFaults \ {"none"} :
                    LET reply == DBAdd(comics, comics_stats, call[p].comics, fault)
                    IN  /\ reply.err # NoErr
                        /\ reply.comics = comics
                        /\ reply.stats = comics_stats
        /\ UpdateReturns(p, ErrAdd)
              => (call[p].stored
                  /\ comics = call[p].before.comics
                  /\ comics_stats = call[p].before.stats)

\* An Update whose Add of two new entries failed, on a non-empty catalog.
C7_Witness ==
    \E p \in Callers :
        /\ UpdateReturns(p, ErrAdd)
        /\ Len(call[p].comics) >= 2
        /\ call[p].before.comics # EmptyComics

\* C8: an Update calls Publish only after db.Add committed a non-empty
\* batch and before it releases the flag, at most once and with the update
\* event; when it returns success it has called Publish exactly once if its
\* batch was non-empty, and with an empty batch (no missing id, or every
\* missing id skipped) it has neither written nor published; when db.Add
\* failed it has not published.
C8_PublishIffCommitted ==
    \A p \in Callers :
        (call[p].op = "Update" /\ Holding(p)) =>
            /\ call[p].pc = "publish" =>
                  /\ call[p].pubs = <<>>
                  /\ call[p].comics # <<>>
                  /\ comics = InsertComic(call[p].before.comics, call[p].comics)
                  /\ inProgress
            /\ call[p].pubs # <<>> =>
                  /\ call[p].pc = "return"
                  /\ call[p].err = NoErr
                  /\ inProgress
                  /\ Len(call[p].pubs) = 1
                  /\ call[p].pubs[1].event = EventUpdate
                  /\ call[p].comics # <<>>
                  /\ {call[p].comics[i].ID : i \in 1..Len(call[p].comics)}
                        \subseteq DOMAIN comics \ DOMAIN call[p].before.comics
            /\ (UpdateReturns(p, NoErr) /\ call[p].comics # <<>>) =>
                  Len(call[p].pubs) = 1
            /\ (UpdateReturns(p, NoErr) /\ call[p].comics = <<>>) =>
                  /\ call[p].pubs = <<>>
                  /\ ~call[p].stored
                  /\ comics = call[p].before.comics
                  /\ comics_stats = call[p].before.stats
            /\ (call[p].pc = "return" /\ call[p].err # NoErr) => call[p].pubs = <<>>

\* An Update returns success with nothing written and nothing published
\* although it had jobs: every missing id was skipped.
C8_Witness ==
    \E p \in Callers :
        /\ UpdateReturns(p, NoErr)
        /\ call[p].jobCount >= 2
        /\ call[p].comics = <<>>
        /\ call[p].pubs = <<>>

\* C9: when the Publish call of an Update or a Drop failed, the call still
\* returns success and the catalog change it committed is in place.
C9_PublishFailureIgnored ==
    \A p \in Callers :
        (call[p].pubs # <<>> /\ call[p].pubs[Len(call[p].pubs)].err # NoErr) =>
            /\ call[p].pc = "return"
            /\ call[p].err = NoErr
            /\ call[p].stored
            /\ comics = OwnComics(p)
            /\ comics_stats = StatsOf(OwnComics(p))
            /\ call[p].op = "Update" => comics # call[p].before.comics

\* An Update whose Publish failed after it added entries.
C9_Witness ==
    \E p \in Callers :
        /\ call[p].op = "Update"
        /\ call[p].pc = "return"
        /\ call[p].pubs # <<>>
        /\ call[p].pubs[1].err # NoErr
        /\ DOMAIN comics # DOMAIN call[p].before.comics

Shared(row, setOfPhrase) == Cardinality(Range(row.Words) \cap setOfPhrase)

\* The row of the catalog that a returned comic comes from.
RankRow(c) == CHOOSE row \in Range(rank.comicsInfo) : row.ID = c.ID

\* Comic a ranks strictly before comic b: more shared keywords, or as many
\* and a larger share of its words.
RanksBefore(a, b) ==
    LET ra == RankRow(a)
        rb == RankRow(b)
        ma == Shared(ra, rank.setOfPhrase)
        mb == Shared(rb, rank.setOfPhrase)
    IN  \/ ma > mb
        \/ ma = mb /\ ma * Len(rb.Words) > mb * Len(ra.Words)

\* The comics of the rows that share a keyword with the phrase.
RankSharing ==
    { [ID |-> row.ID, URL |-> row.URL] :
        row \in {r \in Range(rank.comicsInfo) : Shared(r, rank.setOfPhrase) > 0} }

\* C11: the full scan returns entries that share a keyword with the phrase,
\* each once, as many as there are up to limit; none it returns ranks
\* strictly after one it returns later or after one it leaves out, where an
\* entry ranks before another when it shares more keywords or, sharing as
\* many, has the larger share matched/|words| (compared by
\* cross-multiplication); of two entries with as many words the one that
\* shares more keywords comes strictly earlier.
C11_SearchRanksMatches ==
    rank.pc = "done" =>
        LET got == rank.comics
            at(c) == CHOOSE i \in 1..Len(got) : got[i] = c
        IN  /\ Len(got) = Min(Cardinality(RankSharing), rank.limit)
            /\ Range(got) \subseteq RankSharing
            /\ \A i, j \in 1..Len(got) : i # j => got[i] # got[j]
            /\ \A i, j \in 1..Len(got) : i < j => ~RanksBefore(got[j], got[i])
            /\ \A c \in RankSharing \ Range(got) :
                  \A i \in 1..Len(got) : ~RanksBefore(c, got[i])
            /\ \A a, b \in RankSharing :
                  /\ Len(RankRow(a).Words) = Len(RankRow(b).Words)
                  /\ Shared(RankRow(a), rank.setOfPhrase) > Shared(RankRow(b), rank.setOfPhrase)
                  /\ b \in Range(got)
                  => a \in Range(got) /\ at(a) < at(b)

\* A truncated result that holds two entries with as many words, the first
\* sharing more keywords, and two that share as many keywords.
C11_Witness ==
    /\ rank.pc = "done"
    /\ Cardinality(RankSharing) > rank.limit
    /\ Len(rank.comics) = 2
    /\ Len(RankRow(rank.comics[1]).Words) = Len(RankRow(rank.comics[2]).Words)
    /\ Shared(RankRow(rank.comics[1]), rank.setOfPhrase)
         > Shared(RankRow(rank.comics[2]), rank.setOfPhrase)
    /\ \E c \in RankSharing \ Range(rank.comics) :
         Shared(RankRow(c), rank.setOfPhrase)
             = Shared(RankRow(rank.comics[2]), rank.setOfPhrase)
\* The number of occurrences of id in the posting lists of the keywords.
Occurrences(idx, keywords, id) ==
    Cardinality(UNION { { <<i, j>> : j \in { n \in DOMAIN Postings(idx, keywords[i]) :
                                              Postings(idx, keywords[i])[n] = id } } :
                        i \in DOMAIN keywords })

\* The client s is in an ISearch and holds the lock for reading.
Reading(s) == search[s].op = "ISearch" /\ search[s].pc # "idle"

\* The ISearch of s has its answer and has not returned yet.
Answered(s) == Reading(s) /\ search[s].pc = "done" /\ search[s].err = NoErr

\* C12: the step in which an ISearch gets its answer yields at most limit
\* entries, each before the entries with fewer occurrences of its id in the
\* posting lists of the normalized phrase's keywords, and each a row of the
\* store (id and url) whose id occurs in one of those posting lists.
C12_ISearchRanksByScore ==
    [][\A s \in Searchers :
        (search[s].pc = "lookup" /\ Answered(s)') =>
            LET found == search'[s].comics
                keywords == search[s].keywords
            IN  /\ Len(found) <= search[s].limit
                /\ \A i, j \in DOMAIN found :
                    i < j => Occurrences(index, keywords, found[i].ID)
                               >= Occurrences(index, keywords, found[j].ID)
                /\ \A i \in DOMAIN found :
                    /\ found[i].ID \in DOMAIN comics
                    /\ found[i].URL = comics[found[i].ID].url
                    /\ \E k \in Range(keywords) :
                        found[i].ID \in Range(Postings(index, k))]_allVars

\* An ISearch answered with two entries, the first with more occurrences.
C12_Witness ==
    \E s \in Searchers :
        /\ Answered(s)
        /\ Len(search[s].comics) = 2
        /\ Occurrences(index, search[s].keywords, search[s].comics[1].ID)
             > Occurrences(index, search[s].keywords, search[s].comics[2].ID)

\* C13: a Search or ISearch with an empty phrase or with limit <= 0 is
\* about to return ErrBadArguments with no entries, has called neither the
\* normalizer nor the store, and the step that made the call left the
\* index as it was.
C13_BadArgumentsRefused ==
    /\ [](\A s \in Searchers :
            (search[s].pc # "idle" /\ BadArguments(search[s].phrase, search[s].limit)) =>
                /\ search[s].pc = "done"
                /\ search[s].err = "ErrBadArguments"
                /\ search[s].comics = <<>>
                /\ search[s].called = {})
    /\ [][\A s \in Searchers :
            (search[s].pc = "idle" /\ search'[s].pc # "idle"
               /\ BadArguments(search'[s].phrase, search'[s].limit)) =>
                index' = index]_allVars

\* An ISearch with limit 0 is refused while the index holds postings.
C13_Witness ==
    \E s \in Searchers :
        /\ search[s].pc = "done" /\ search[s].op = "ISearch"
        /\ search[s].phrase # <<>> /\ search[s].limit = 0
        /\ search[s].err = "ErrBadArguments"
        /\ index # EmptyIndex

\* The ids of the entries an ISearch is about to return.
Returned(s) == { search[s].comics[i].ID : i \in DOMAIN search[s].comics }

\* As stated: after an Update committed an entry and published, and the
\* callback handled the event, an ISearch for a keyword of the entry that
\* the index did not have returns the entry.
C14_ISearchReturnsNewEntry ==
    \A s \in Searchers :
        Answered(s) =>
            \A pair \in broker.fresh :
                pair[2] \in Range(search[s].keywords) => pair[1] \in Returned(s)

\* C14: after an Update committed an entry and published, the callback
\* handled the event with an UpdateIndex that succeeded, and no Drop
\* committed since, an ISearch that succeeds for a phrase with a keyword of
\* the entry that the index did not have returns the entry, or else returns
\* limit entries none of which has fewer occurrences than the entry.
C14_ISearchReturnsNewEntryUpToLimit ==
    \A s \in Searchers :
        Answered(s) =>
            \A pair \in broker.fresh :
                pair[2] \in Range(search[s].keywords) =>
                    \/ pair[1] \in Returned(s)
                    \/ /\ Len(search[s].comics) = search[s].limit
                       /\ \A id \in Returned(s) :
                            Occurrences(index, search[s].keywords, id)
                              >= Occurrences(index, search[s].keywords, pair[1])

\* An ISearch returns an entry that is fresh for a keyword of its phrase.
C14_Witness ==
    \E s \in Searchers :
        /\ Answered(s)
        /\ \E pair \in broker.fresh :
            pair[2] \in Range(search[s].keywords) /\ pair[1] \in Returned(s)

\* The writer u is between its Lock and its Unlock.
InSection(u) == indexer[u].pc \in {"read", "clear", "build", "return"}

\* C15: a writer between Lock and Unlock holds the lock alone (no other
\* writer is in its section, no ISearch holds the lock for reading); the
\* index changes only in steps of the writer that is in its section, and
\* not at all while an ISearch holds the lock for reading.
C15_WritersExcludeReaders ==
    /\ [](\A u \in Indexers :
            InSection(u) =>
                /\ lock.writer = u
                /\ \A v \in Indexers \ {u} : ~InSection(v)
                /\ \A s \in Searchers : ~Reading(s))
    /\ [][/\ index' # index =>
                \E u \in Indexers : InSection(u) /\ indexer'[u] # indexer[u]
          /\ (\E s \in Searchers : Reading(s)) => index' = index]_allVars

\* The callback has rebuilt a part of the index that held more, while the
\* scheduler waits for the lock.
C15_Witness ==
    /\ indexer["subscriber"].pc = "build"
    /\ indexer["subscriber"].next = 2
    /\ Len(indexer["subscriber"].comicsInfo) = 2
    /\ indexer["scheduler"].pc = "lock"
    /\ index # EmptyIndex

\* C16: the step in which UpdateIndex fails to read the catalog sets the
\* error it returns and leaves the index as it was, and so does its return;
\* after the return of a failed tick the service still serves, the scheduler
\* is ready for the next tick and nobody holds the lock for writing.
C16_FailedReadKeepsIndex ==
    [][\A u \in Indexers :
        /\ (indexer[u].pc = "read" /\ indexer'[u].pc # "clear"
              /\ indexer'[u] # indexer[u]) =>
                /\ indexer'[u].pc = "return"
                /\ indexer'[u].err # NoErr
                /\ index' = index
        /\ (indexer[u].pc = "return" /\ indexer[u].err # NoErr
              /\ indexer'[u] # indexer[u]) =>
                /\ index' = index
                /\ indexer'[u] = NoIndexing
                /\ lock'.writer = "none"
                /\ indexer[u].from = "tick" =>
                    (service' = "serving" /\ service = "serving")]_allVars

\* A tick failed to read the catalog while the index held postings.
C16_Witness ==
    /\ indexer["scheduler"].pc = "return"
    /\ indexer["scheduler"].from = "tick"
    /\ indexer["scheduler"].err # NoErr
    /\ index # EmptyIndex
    /\ service = "serving"

\* ------------------------------------------------------------------ properties of the gateway

\* The requests whose handler invocation is in flight.
InFlight == {r \in Requests : request[r].pc = "serving"}

Rejections == {r \in Requests : request[r].pc = "rejected"}

\* C17: at most SearchConcurrency handler invocations are in flight; a
\* request is rejected in the one step of its arrival, when
\* SearchConcurrency invocations are in flight, and takes no slot; and
\* when every request of a burst of more than SearchConcurrency has been
\* decided before any handler returned, SearchConcurrency are being served
\* and the others are rejected.
C17_AtMostCapacityInFlight ==
    /\ [](/\ Cardinality(InFlight) <= SearchConcurrency
          /\ (NumRequests > SearchConcurrency
                /\ InFlight \cup Rejections = Requests) =>
                    /\ Cardinality(InFlight) = SearchConcurrency
                    /\ Cardinality(Rejections) = NumRequests - SearchConcurrency)
    /\ [][\A r \in Requests :
            /\ (request[r].pc = "new" /\ request'[r].pc # "new") =>
                    request'[r].pc = IF Cardinality(InFlight) = SearchConcurrency
                                     THEN "rejected" ELSE "serving"
            /\ (request[r].pc # "rejected" /\ request'[r].pc = "rejected") =>
                    InFlight' = InFlight /\ sem' = sem]_allVars

\* A burst: every request decided, none returned.
C17_Witness ==
    /\ Cardinality(InFlight) = SearchConcurrency
    /\ Cardinality(Rejections) = NumRequests - SearchConcurrency
    /\ Rejections # {}

\* C18: the slots held are as many as the handler invocations in flight;
\* the step in which a handler returns or panics releases one slot, the
\* step that rejects a request releases none, and a request that arrives
\* when no invocation is in flight is admitted.
C18_SlotsAreInvocations ==
    /\ [](sem = Cardinality(InFlight))
    /\ [][\A r \in Requests :
            /\ (request[r].pc = "serving" /\ request'[r].pc # "serving") =>
                    /\ request'[r].pc \in {"ok", "panicked"}
                    /\ sem' = sem - 1
            /\ (request[r].pc = "new" /\ request'[r].pc = "rejected") => sem' = sem
            /\ (request[r].pc = "new" /\ request'[r].pc # "new" /\ InFlight = {}) =>
                    request'[r].pc = "serving" /\ sem' = 1]_allVars

\* After a return, a panic and a rejection, with nothing in flight, a
\* further request was admitted.
C18_Witness ==
    /\ \E r \in Requests : request[r].pc = "ok"
    /\ \E r \in Requests : request[r].pc = "panicked"
    /\ \E r \in Requests : request[r].pc = "rejected"
    /\ Cardinality(InFlight) = 1
    /\ sem = 1

\* The requests that hold a reservation; the requests whose handler was
\* called.
Reserved == {r \in Waiters : waiter[r].pc \in {"timer", "granted", "admitted", "timedout"}}

Admitted == {r \in Waiters : waiter[r].pc = "admitted"}

Apart(x, y) == IF x > y THEN x - y ELSE y - x

\* ceil(a / b) for b > 0.
Ceil(a, b) == (a + b - 1) \div b

\* The ticks at which the requests of S have f (a field of their frames)
\* keep 1/rps apart, and at most ceil(rps * W) + 1 of them fall in a
\* window of length W.
Paced(S, f) ==
    /\ \A r1, r2 \in S :
        r1 # r2 => Apart(waiter[r1][f], waiter[r2][f]) * rl.limit >= TicksPerSecond
    /\ \A t, W \in 0..Latest :
        Cardinality({r \in S : t <= waiter[r][f] /\ waiter[r][f] <= t + W})
            <= Ceil(rl.limit * W, TicksPerSecond) + 1

\* As stated: for rps > 0 the ticks at which the handler is called are
\* paced.
C19_AdmissionsPaced == rl.limit > 0 => Paced(Admitted, "at")

\* C19: for rps > 0 the times now.Add(delay) that wait computes for its
\* reservations are 1/rps apart or more, at most ceil(rps * W) + 1 of them
\* fall in a window of length W, and the handler of a request is called at
\* that time or later.
C19_ReservationsPaced ==
    rl.limit > 0 =>
        /\ Paced(Reserved, "due")
        /\ \A r \in Admitted : waiter[r].at >= waiter[r].due

\* Two handlers were called, the second later than the time that wait
\* computed for it, which is 1/rps after that of the first.
C19_Witness ==
    /\ rl.limit > 0
    /\ \E r1, r2 \in Admitted :
        /\ (waiter[r2].due - waiter[r1].due) * rl.limit = TicksPerSecond
        /\ waiter[r2].at > waiter[r2].due

\* The request has a deadline and was answered 408 without a wait: at its
\* arrival, the deadline passed, or by the reservation, the deadline
\* earlier than the time computed for it.
TooEarly(r) ==
    /\ HasDeadline(waiter[r])
    /\ \/ waiter[r].pc = "refused"
       \/ waiter[r].pc = "exceeded" /\ waiter[r].deadline < waiter[r].due

\* The request has a deadline, had to wait, and was answered 408 when its
\* deadline had passed.
Overtaken(r) ==
    /\ HasDeadline(waiter[r])
    /\ waiter[r].pc = "timedout"
    /\ clock >= waiter[r].deadline

\* As stated: for rps > 0 a request is admitted in the end unless its
\* context is cancelled or its deadline is earlier than the time computed
\* for its admission.
C20_EveryRequestAdmitted ==
    \A r \in Waiters :
        (waiter[r].pc # "idle" /\ rl.limit > 0)
            ~> (r \in Admitted \/ waiter[r].cancelled \/ TooEarly(r))

\* C20: for rps > 0 a request is admitted in the end unless its context is
\* cancelled, its deadline is earlier than the time computed for its
\* admission, or it had to wait and its deadline passed before its timer
\* was served; so a request without deadline that is never cancelled is
\* admitted.
C20_AdmittedUnlessOvertaken ==
    \A r \in Waiters :
        (waiter[r].pc # "idle" /\ rl.limit > 0)
            ~> (r \in Admitted \/ waiter[r].cancelled \/ TooEarly(r) \/ Overtaken(r))

\* A request without deadline was admitted after a wait behind another.
C20_Witness ==
    /\ rl.limit > 0
    /\ \E r \in Admitted :
        /\ ~HasDeadline(waiter[r])
        /\ ~waiter[r].cancelled
        /\ waiter[r].due > 0
        /\ \E q \in Admitted \ {r} : waiter[q].due < waiter[r].due

\* The request was turned away by wait for its deadline.
Exceeded == {r \in Waiters : waiter[r].pc = "exceeded"}

LastDue(S) == CHOOSE d \in {waiter[q].due : q \in S} : \A q \in S : waiter[q].due <= d

\* What the bucket holds at t when its last token was given out for the
\* time d: nothing at d, rl.limit a second more after and less before, up
\* to the burst.
BucketAfter(d, t) == Min(rl.burst * TicksPerSecond, (t - d) * rl.limit)

\* The requests that took a token and were not turned away afterwards.
Kept == {q \in Reserved : waiter[q].pc # "timedout"}

\* C22: when the context of a request is cancelled while it waits, the
\* request is answered 408 and its token is not consumed: if it was the
\* last to reserve, the bucket holds from then on what it would hold with
\* the reservations of the others alone.
C22_CancelledTokenNotConsumed ==
    rl.limit > 0 =>
        \A r \in Reserved \ Kept :
            (waiter[r].cancelled /\ Kept # {} /\ Reserved = Kept \cup {r}
                /\ \A q \in Kept : waiter[q].due < waiter[r].due)
            => \A t \in clock..Latest : tokensAt(rl, t) = BucketAfter(LastDue(Kept), t)

\* The request was answered 408.
TimedOut(r) == waiter[r].pc \in {"refused", "exceeded", "timedout"}

\* C23: with rps <= 0 wait returns nil for no request, the first included,
\* so the handler is never called; a request whose context has a deadline
\* or is cancelled is answered 408 in the end.
C23_ZeroRateAdmitsNobody ==
    /\ [](rl.limit <= 0 =>
            \A r \in Waiters : waiter[r].pc \notin {"granted", "admitted"})
    /\ \A r \in Waiters :
        (rl.limit <= 0 /\ waiter[r].pc # "idle"
            /\ (HasDeadline(waiter[r]) \/ waiter[r].cancelled))
            ~> TimedOut(r)

\* At a negative rate the first request, without deadline, waited until
\* its context was cancelled, and the other was turned away for its
\* deadline.
C23_Witness ==
    /\ rl.limit < 0
    /\ \E r, q \in Waiters :
        /\ waiter[r].pc = "timedout" /\ waiter[r].cancelled /\ ~HasDeadline(waiter[r])
        /\ waiter[r].due = Forever
        /\ waiter[q].pc = "exceeded"

\* C24: a call of Update or Drop that the Updater turns away with
\* AlreadyInProgress is answered 202 by the gateway.
C24_RejectedIsAccepted ==
    \A p \in Callers : Rejected(p) => Answer(call[p].op, call[p].err) = 202

\* properties of the authenticator

\* The token validates at now: HS256 signature under the configured key,
\* not expired, subject superuser.
Validates(token, now) ==
    /\ token # Malformed
    /\ token.alg = "HS256" /\ token.key = jwtSecret
    /\ token.exp = NoExp \/ now < token.exp
    /\ token.sub = validSubject

\* The request carries a token: in the Authorization header behind the
\* prefix "Token ", or else in the jwt_token cookie.
Carries(frame) == frame.header.prefix = tokenPrefix \/ frame.cookie.set

Carried(frame) ==
    IF frame.header.prefix = tokenPrefix THEN frame.header.token ELSE frame.cookie.token

Answers == {r \in Admins : request[r].pc = "answered"}

Issued == {r \in Admins : request[r].pc = "token"}

\* The Updater is called for the requests that carry a token that
\* validates, and the others are answered 401.
CalledIfValid ==
    \A r \in Answers :
        LET frame == request[r]
        IN  /\ frame.called <=> (Carries(frame) /\ Validates(Carried(frame), frame.at))
            /\ ~frame.called <=> frame.status = 401

\* As stated: the Updater is called for the requests with a token that
\* validates and for no other, and a token of CreateToken validates until
\* its ttl has passed and never after.
C25_TokenGoodForTtl ==
    /\ CalledIfValid
    /\ \A r \in Issued :
        /\ clock < request[r].issued + ttl
            => ValidateToken(request[r].token, clock) = NoErr
        /\ clock > request[r].issued + ttl
            => ValidateToken(request[r].token, clock) # NoErr

\* C25: the Updater is called for the requests with a token that validates
\* and for no other, which are answered 401; a token of CreateToken
\* validates until the whole second in which its ttl ends begins, and so
\* never after its ttl has passed.
C25_TokenGoodToExpiry ==
    /\ CalledIfValid
    /\ \A r \in Issued :
        /\ ValidateToken(request[r].token, clock) = NoErr
            <=> clock < NewNumericDate(request[r].issued + ttl)
        /\ clock >= request[r].issued + ttl
            => ValidateToken(request[r].token, clock) # NoErr

\* A Drop went through on the token in the cookie of a request whose
\* header has another prefix, while the token of another client has
\* stopped validating before its ttl has passed.
C25_Witness ==
    /\ \E r \in Answers :
        /\ request[r].called /\ request[r].op = "Drop"
        /\ request[r].header.prefix = "Bearer "
        /\ request[r].header.token \in Forged
        /\ request[r].cookie.token \notin Forged
    /\ \E q \in Issued :
        /\ clock < request[q].issued + ttl
        /\ ValidateToken(request[q].token, clock) # NoErr

\* C26: Stats can be called in every state of the Updater, whatever
\* in_progress is, and ends in the step it is called in; it is not turned
\* away with AlreadyInProgress, and it leaves in_progress, the calls of
\* Update and Drop and the catalog as they are.
C26_StatsBesideUpdate ==
    /\ [](/\ ENABLED StatsCall
          /\ request[StatsFrame].pc = "stats"
                => request[StatsFrame].reply.err # ErrAlreadyExists)
    /\ [][request' # request => UNCHANGED <<inProgress, call, comics, comics_stats>>]_allVars

\* Stats has returned the row of comics_stats while an Update that has
\* stored its comics held the flag.
C26_Witness ==
    /\ request[StatsFrame].pc = "stats"
    /\ request[StatsFrame].busy
    /\ request[StatsFrame].reply.err = NoErr
    /\ request[StatsFrame].reply.stats.comics_fetched > 0
    /\ inProgress

\* properties of words.Norm

\* The maximal runs of the runes of phrase that separates does not hold
\* of: separates is a set of runes.
RECURSIVE RunsFrom(_, _, _)
RunsFrom(phrase, run, separates) ==
    IF phrase = <<>> THEN (IF run = <<>> THEN <<>> ELSE <<run>>)
    ELSE IF Head(phrase) \in separates
         THEN (IF run = <<>> THEN <<>> ELSE <<run>>) \o RunsFrom(Tail(phrase), <<>>, separates)
         ELSE RunsFrom(Tail(phrase), Append(run, Head(phrase)), separates)

\* The place of the first of stems that is stem.
First(stems, stem) ==
    CHOOSE k \in 1..Len(stems) : stems[k] = stem /\ \A j \in 1..(k - 1) : stems[j] # stem

\* keywords are the stems of tokens in order of first occurrence, none
\* twice and no stop-word among them.
StemsInOrder(tokens, keywords) ==
    LET stems == [k \in 1..Len(tokens) |-> englishStem(tokens[k])]
    IN  /\ \A i, j \in 1..Len(keywords) : i # j => keywords[i] # keywords[j]
        /\ \A i \in 1..Len(keywords) : ~englishIsStopWord(keywords[i])
        /\ Range(keywords) = {stem \in Range(stems) : ~englishIsStopWord(stem)}
        /\ \A i, j \in 1..Len(keywords) :
            i < j => First(stems, keywords[i]) < First(stems, keywords[j])

\* As stated: the tokens are the maximal runs of letters and digits.
C27_StemsOfLettersAndDigits ==
    rank.pc = "done" =>
        StemsInOrder(RunsFrom(rank.phrase, <<>>, Runes \ (Letters \cup Digits)), rank.keywords)

\* C27: Norm returns the stems of the tokens of the phrase, its maximal
\* runs of letters and numbers, in order of first occurrence, no keyword
\* twice and no stop-word; a token whose stem has occurred contributes
\* nothing.
C27_StemsOfLettersAndNumbers ==
    rank.pc = "done" =>
        StemsInOrder(RunsFrom(rank.phrase, <<>>, Runes \ (Letters \cup Numbers)), rank.keywords)

\* Norm of "I!\u00bd \u00bd" has returned the one keyword "\u00bd": the stem
\* of "I" is a stop-word, the second token has the stem of the first, and
\* the fraction is a number that is no digit.
C27_Witness ==
    /\ rank.pc = "done"
    /\ rank.phrase = <<"I", "!", "1/2", " ", "1/2">>
    /\ rank.keywords = << <<"1/2">> >>

\* ------------------------------------------------------------------ C28

\* C28: SearcherScheduler.Start runs UpdateIndex once, synchronously, before
\* it returns: Start is called once; from its call to its return the
\* scheduler is inside the one UpdateIndex that Start called; Start returns
\* when that UpdateIndex has returned, nil when it succeeded and its error
\* when it failed.  After a failure main returns, and no tick ever calls
\* UpdateIndex: a tick calls it only while main serves, which it does only
\* after Start returned nil.
C28_StartRunsUpdateIndexFirst ==
    [][/\ (service # "starting" /\ service' = "starting") =>
            /\ service = "subscribed"
            /\ indexer["scheduler"] = NoIndexing
            /\ indexer'["scheduler"] = Begin("UpdateIndex", "start")
       /\ (service # "subscribed" /\ service' = "subscribed") => service = "down"
       /\ service = "starting" =>
            /\ indexer["scheduler"].from = "start"
            /\ indexer["scheduler"].op = "UpdateIndex"
            /\ indexer["scheduler"].pc # "idle"
            /\ indexer'["scheduler"].from = "start" => service' = "starting"
       /\ (service = "starting" /\ service' # "starting") =>
            /\ \/ indexer["scheduler"].pc = "return"
               \/ /\ indexer["scheduler"].pc = "build"
                  /\ indexer["scheduler"].next > Len(indexer["scheduler"].comicsInfo)
            /\ indexer'["scheduler"] = NoIndexing
            /\ service' = IF indexer["scheduler"].err = NoErr
                          THEN "serving" ELSE "exited"
       /\ (service # "serving" /\ service' = "serving") =>
            /\ service = "starting"
            /\ indexer["scheduler"].err = NoErr
       /\ service = "exited" =>
            /\ service' = "exited"
            /\ indexer["scheduler"] = NoIndexing
            /\ indexer'["scheduler"] = NoIndexing
       /\ (indexer["scheduler"].from # "tick" /\ indexer'["scheduler"].from = "tick") =>
            service = "serving"]_allVars

\* The first UpdateIndex, called by Start, failed to read the catalog and is
\* about to return its error to Start.
C28_Witness ==
    /\ service = "starting"
    /\ indexer["scheduler"].from = "start"
    /\ indexer["scheduler"].pc = "return"
    /\ indexer["scheduler"].err # NoErr

\* ------------------------------------------------------------------ C29

\* The scheduler is between two calls of UpdateIndex.
BetweenCalls == indexer["scheduler"].pc = "idle"

\* C29: once the context of the scheduler is cancelled the scheduler starts
\* no further UpdateIndex, whether or not a tick is pending, and its
\* goroutine terminates.
C29_CancelledStartsNoUpdateIndex ==
    /\ [][(service \in {"cancelled", "stopped"} /\ BetweenCalls) =>
            indexer'["scheduler"] = indexer["scheduler"]]_allVars
    /\ (service = "cancelled") ~> (service = "stopped")

\* Once the context is cancelled the goroutine of the scheduler terminates,
\* and after it has terminated the scheduler calls nothing.
CancelledStops ==
    /\ [][(service = "stopped" /\ BetweenCalls) =>
            indexer'["scheduler"] = indexer["scheduler"]]_allVars
    /\ (service = "cancelled") ~> (service = "stopped")

\* ------------------------------------------------------------------ C30

\* The ids of 1..N that the catalog did not have when the Update began.
Absent(c) ==
    {id \in ModelledIDs : 1 <= id /\ id <= c.lastID /\ id \notin DOMAIN c.before.comics}

\* The Update has received the results of all its jobs.
Collected(c) ==
    \/ c.pc = "collect" /\ c.received = c.jobCount
    \/ c.pc \in {"publish", "return"}

\* C30: during one Update no id is received from jobs by two workers, and
\* xkcd.Get is called at most once for an id and only for an id of 1..N
\* that the catalog does not have and that is not 404; when the Update
\* has collected its results, each id of 1..N that the catalog did not have
\* has been received by one worker, and xkcd.Get has been called exactly
\* once for each of them but 404.
C30_EachAbsentIdFetchedOnce ==
    \A p \in Callers :
        call[p].op = "Update" =>
            \A id \in ModelledIDs :
                /\ call[p].taken[id] <= 1
                /\ call[p].gets[id] <= call[p].taken[id]
                /\ Cardinality({w \in Workers : call[p].workers[w].at = "busy"
                                                /\ call[p].workers[w].id = id})
                     <= call[p].taken[id] - call[p].gets[id]
                /\ call[p].gets[id] = 1 =>
                     id \in Absent(call[p]) /\ id # TombstoneID
                /\ call[p].taken[id] = 1 => id \in Absent(call[p])
                /\ Collected(call[p]) =>
                     /\ call[p].taken[id] = IF id \in Absent(call[p]) THEN 1 ELSE 0
                     /\ call[p].gets[id] =
                          IF id \in Absent(call[p]) /\ id # TombstoneID THEN 1 ELSE 0

\* An Update over a catalog that has the entry 1, with N = 404, has
\* collected its results: 2 was fetched and 404 was handled by a worker.
C30_Witness ==
    \E p \in Callers :
        /\ call[p].op = "Update"
        /\ call[p].pc = "collect"
        /\ call[p].received = call[p].jobCount
        /\ call[p].lastID = TombstoneID
        /\ 1 \in DOMAIN call[p].before.comics
        /\ call[p].gets[2] = 1
        /\ call[p].taken[TombstoneID] = 1

\* ------------------------------------------------------------------ C31

\* The entry the worker makes for 404, as the comics table holds it.
Tombstone == [url |-> "", words |-> <<>>]

\* The ids of a sequence of comics.
IDsOf(rows) == {rows[i].ID : i \in 1..Len(rows)}

\* C31: an Update with N >= 404 over a catalog without 404 that stored its
\* batch has inserted 404 with url "" and no words, and the catalog never
\* holds 404 otherwise; an Update over a catalog that has 404 never submits
\* it to the workers nor hands it to the store again; no posting list holds
\* 404, and no Search and no ISearch returns it, whatever the phrase.
C31_TombstoneStoredOnceAndNeverFound ==
    /\ TombstoneID \in DOMAIN comics => comics[TombstoneID] = Tombstone
    /\ \A p \in Callers :
        call[p].op = "Update" =>
            /\ TombstoneID \in DOMAIN call[p].before.comics =>
                /\ TombstoneID \notin call[p].submitted
                /\ TombstoneID \notin Range(call[p].jobs)
                /\ call[p].taken[TombstoneID] = 0
                /\ TombstoneID \notin IDsOf(call[p].comics)
            /\ (/\ call[p].stored
                /\ call[p].err = NoErr
                /\ call[p].pc \in {"publish", "return"}
                /\ call[p].lastID >= TombstoneID) =>
                    TombstoneID \in DOMAIN comics
    /\ \A k \in DOMAIN index : TombstoneID \notin Range(index[k])
    /\ \A s \in Searchers : TombstoneID \notin IDsOf(search[s].comics)

\* The catalog holds 404, an Update with N = 404 that began over it has
\* collected its results, the index was rebuilt and a call has found
\* entries.
C31_Witness ==
    /\ TombstoneID \in DOMAIN comics
    /\ index # EmptyIndex
    /\ call[UpdateClient].op = "Update"
    /\ call[UpdateClient].lastID = TombstoneID
    /\ TombstoneID \in DOMAIN call[UpdateClient].before.comics
    /\ Collected(call[UpdateClient])
    /\ \E s \in Searchers : search[s].pc = "done" /\ search[s].comics # <<>>

\* ------------------------------------------------------------------ C32

\* The Update is between the start of its workers and the end of its
\* collecting loop.
Collecting(c) == c.op = "Update" /\ c.pc = "collect"

\* C32: an Update terminates.  The jobs it sends fit the capacity of jobs,
\* so that the enumeration never blocks; a worker that holds a result can
\* send it; while the collecting loop waits, a worker has a job, or a job
\* or a result is waiting; the loop has received as many results as jobs
\* were sent, skips included, exactly when no job and no result is left
\* and every worker has left its loop; and every call that began returns.
C32_UpdateTerminates ==
    /\ [](\A p \in Callers :
            Collecting(call[p]) =>
                /\ call[p].jobCount = Cardinality(call[p].submitted)
                /\ call[p].jobCount <= Capacity(call[p].lastID)
                /\ Len(call[p].jobs) <= Capacity(call[p].lastID)
                /\ \A w \in Workers :
                     call[p].workers[w].at = "busy" => CanSendResult(call[p])
                /\ call[p].received + Len(call[p].results) + Len(call[p].jobs)
                     + Cardinality({w \in Workers : call[p].workers[w].at = "busy"})
                     = call[p].jobCount
                /\ call[p].received = call[p].jobCount =>
                     \A w \in Workers : WorkerExited(call[p], w))
    /\ \A p \in Callers : (call[p].pc # "idle") ~> (call[p].pc = "idle")

\* An Update with three jobs has received the three results, a skip among
\* them, and its workers have left their loops.
C32_Witness ==
    \E p \in Callers :
        /\ Collecting(call[p])
        /\ call[p].jobCount = 3
        /\ call[p].received = 3
        /\ call[p].skipped # {}
        /\ \A w \in Workers : WorkerExited(call[p], w)

\* ------------------------------------------------------------------ C33

\* The entries of the catalog that have a keyword of the phrase.
Matching(table, keywords) ==
    {id \in DOMAIN table : Range(table[id].words) \cap Range(keywords) # {}}

\* The rows are entries of ids, as the catalog has them, none twice.
RowsOf(table, rows, ids) ==
    /\ IDsOf(rows) \subseteq ids
    /\ \A i, j \in 1..Len(rows) : i # j => rows[i].ID # rows[j].ID
    /\ \A i \in 1..Len(rows) : rows[i].URL = table[rows[i].ID].url

\* C33: Search takes no lock and reads no index.  Whoever holds the lock of
\* the index, a client can call Search and a Search under way can read the
\* catalog; no step of a Search changes the lock; and what a Search
\* returns is decided by its keywords, its limit and the catalog it read:
\* limit entries of the catalog that have a keyword of the phrase, or all
\* of them when they are fewer, whatever the index holds.
C33_SearchTakesNoLock ==
    /\ [](\A s \in Searchers :
            /\ (service = "serving" /\ search[s].pc = "idle") => ENABLED SearchCall(s)
            /\ search[s].op = "Search" =>
                /\ s \notin lock.readers
                /\ search[s].pc = "scan" => ENABLED SearchScan(s))
    /\ [][\A s \in Searchers :
            /\ ((search[s].op = "Search" \/ search'[s].op = "Search")
                    /\ search'[s] # search[s]) =>
                  lock' = lock /\ index' = index
            /\ (search[s].op = "Search" /\ search[s].pc = "scan"
                    /\ search'[s].pc = "done" /\ search'[s].err = NoErr) =>
                  LET matching == Matching(comics, search[s].keywords)
                  IN  /\ RowsOf(comics, search'[s].comics, matching)
                      /\ Len(search'[s].comics)
                           = Min(search[s].limit, Cardinality(matching))]_allVars

\* A Search has found entries while a writer held the lock of an index
\* that it had cleared.
C33_Witness ==
    \E s \in Searchers :
        /\ search[s].op = "Search"
        /\ search[s].pc = "done"
        /\ search[s].comics # <<>>
        /\ lock.writer # "none"
        /\ index = EmptyIndex

\* ------------------------------------------------------------------ C34

\* The ids the index gives ISearch for its keywords.
Indexed(s) == Range(uniqueIDs(index, search[s].keywords))

\* C34: an ISearch whose index holds ids that the store has lost succeeds
\* as any other.  Whatever the index holds, the read of the store can
\* succeed; when it does ISearch returns without error entries that the
\* store had at that read, none twice, among the indexed ids: limit of
\* them, or all of them when they are fewer; the ids the store had lost are
\* left out.  ISearch fails at that point only with the error of the
\* store's query.
C34_ISearchOmitsRemoved ==
    /\ [](\A s \in Searchers :
            (search[s].op = "ISearch" /\ search[s].pc = "lookup") =>
                ENABLED (ISearchLookup(s) /\ search'[s].err = NoErr))
    /\ [][\A s \in Searchers :
            (search[s].op = "ISearch" /\ search[s].pc = "lookup"
                /\ search'[s].pc = "done") =>
                  LET kept == Indexed(s) \cap DOMAIN comics
                  IN  IF search'[s].err = NoErr
                      THEN /\ RowsOf(comics, search'[s].comics, kept)
                           /\ Len(search'[s].comics)
                                = Min(search[s].limit, Cardinality(kept))
                      ELSE /\ search'[s].err = "failed to get comics by comics ids"
                           /\ search'[s].comics = <<>>]_allVars

\* An ISearch has returned an entry without error, and fewer entries than
\* its limit, from an index that gave it more ids.
C34_Witness ==
    \E s \in Searchers :
        /\ search[s].op = "ISearch"
        /\ search[s].pc = "done"
        /\ search[s].err = NoErr
        /\ search[s].comics # <<>>
        /\ Len(search[s].comics) < search[s].limit
        /\ Len(search[s].comics) < Cardinality(Indexed(s))

\* ------------------------------------------------------------------ C35

\* idx is the inversion of rows: its keys are the keywords of the rows, and
\* the posting list of a key holds the ids of the rows that have the key,
\* each once.
IsInversion(idx, rows) ==
    /\ DOMAIN idx = UNION {Range(rows[i].Words) : i \in 1..Len(rows)}
    /\ \A k \in DOMAIN idx :
        /\ Range(idx[k]) = {rows[i].ID : i \in {j \in 1..Len(rows) : k \in Range(rows[j].Words)}}
        /\ Len(idx[k]) = Cardinality(Range(idx[k]))

\* rows are the entries of the table, each once.
IsCatalog(rows, table) ==
    /\ Len(rows) = Cardinality(DOMAIN table)
    /\ {rows[i].ID : i \in 1..Len(rows)} = DOMAIN table
    /\ \A i \in 1..Len(rows) :
        rows[i].URL = table[rows[i].ID].url /\ rows[i].Words = table[rows[i].ID].words

\* C35: the rows an UpdateIndex goes on with are the catalog as it was at
\* its read; while it builds, the index is the inversion of the rows it has
\* passed, so that at its return without error the index is the inversion
\* of the catalog it read: the posting list of a keyword holds the ids of
\* the entries that have the keyword, no other id and none twice, and a
\* keyword of no entry, of the previous index or not, has no posting list.
C35_IndexIsInversion ==
    /\ [](\A u \in Indexers :
            (indexer[u].op = "UpdateIndex" /\ indexer[u].pc = "build") =>
                /\ lock.writer = u
                /\ IsInversion(index, SubSeq(indexer[u].comicsInfo, 1, indexer[u].next - 1)))
    /\ [][\A u \in Indexers :
            /\ (indexer[u].pc = "read" /\ indexer'[u].pc = "clear") =>
                  IsCatalog(indexer'[u].comicsInfo, comics)
            /\ (indexer[u].op = "UpdateIndex" /\ indexer[u].pc = "build"
                    /\ indexer'[u] = NoIndexing) =>
                  /\ indexer[u].err = NoErr
                  /\ index' = index
                  /\ IsInversion(index', indexer[u].comicsInfo)]_allVars

\* An UpdateIndex is about to return without error from a catalog that
\* has an entry, and a keyword of the previous index is gone.
C35_Witness ==
    \E u \in Indexers :
        /\ indexer[u].op = "UpdateIndex"
        /\ indexer[u].pc = "build"
        /\ indexer[u].next > Len(indexer[u].comicsInfo)
        /\ indexer[u].comicsInfo # <<>>
        /\ index # EmptyIndex
        /\ indexer[u].had \ DOMAIN index # {}

\* ------------------------------------------------------------------ C36

\* The callback returns from the message at the head of the subscription.
CallbackReturns ==
    /\ broker.pending # <<>>
    /\ \/ indexer["subscriber"].from = "event" /\ indexer'["subscriber"] = NoIndexing
       \/ /\ indexer["subscriber"] = NoIndexing
          /\ indexer'["subscriber"] = NoIndexing
          /\ broker'.pending # broker.pending
          /\ Head(broker.pending).event \notin {EventUpdate, EventReset}

\* The two indexes have the same keys and, for each key, the same ids.
SameIds(a, b) ==
    /\ DOMAIN a = DOMAIN b
    /\ \A k \in DOMAIN a : Range(a[k]) = Range(b[k])

\* What HandleEvent does with one event: for a reset the index is empty at
\* the return, no error is returned and the store is not read; for an
\* update UpdateIndex is run and its error is the error returned: the index
\* is the inversion of the catalog read when there is none and as it was
\* when there is one; for any other payload nil is returned at once and
\* neither the index nor the lock is touched.
HandlesEvent ==
    /\ (indexer["subscriber"].pc = "idle" /\ indexer'["subscriber"].pc # "idle") =>
          LET event == Head(broker.pending).event
          IN  /\ event \in {EventUpdate, EventReset}
              /\ indexer'["subscriber"].op =
                    IF event = EventUpdate THEN "UpdateIndex" ELSE "ResetIndex"
    /\ indexer["subscriber"].op = "ResetIndex" =>
          indexer'["subscriber"].pc # "read" /\ indexer'["subscriber"].comicsInfo = <<>>
    /\ CallbackReturns =>
          LET frame == indexer["subscriber"]
              event == Head(broker.pending).event
          IN  /\ event = EventReset =>
                    frame.op = "ResetIndex" /\ frame.err = NoErr /\ index' = EmptyIndex
              /\ event = EventUpdate =>
                    /\ frame.op = "UpdateIndex"
                    /\ index' = index
                    /\ frame.err = NoErr => IsInversion(index', frame.comicsInfo)
                    /\ frame.err # NoErr => frame.pc = "return"
              /\ event \notin {EventUpdate, EventReset} =>
                    index' = index /\ lock' = lock

\* As stated: the second handling of an event, with no change of the
\* catalog in between, leaves the index as the first left it.
C36_SecondHandlingLeavesIndex ==
    [][/\ HandlesEvent
       /\ (CallbackReturns /\ Head(broker.pending).copy = 2) =>
            index' = Head(broker.pending).first.index]_allVars

\* C36: HandleEvent empties the index for a reset, runs UpdateIndex for an
\* update and returns its error, and does nothing for another payload.  The
\* second handling of an event right after a first that returned no error
\* leaves each keyword with the ids the first left it, and leaves the index
\* as the first left it when the event is no update or the second handling
\* returns an error.
C36_SecondHandlingLeavesIds ==
    [][/\ HandlesEvent
       /\ (CallbackReturns /\ Head(broker.pending).copy = 2
              /\ Head(broker.pending).first.err = NoErr) =>
            /\ SameIds(index', Head(broker.pending).first.index)
            /\ (Head(broker.pending).event # EventUpdate
                  \/ indexer["subscriber"].err # NoErr) =>
                    index' = Head(broker.pending).first.index]_allVars

\* The callback is about to return for the second time from an update that
\* it handled without error both times, over a catalog with an entry.
C36_Witness ==
    /\ broker.pending # <<>>
    /\ Head(broker.pending).copy = 2
    /\ Head(broker.pending).event = EventUpdate
    /\ Head(broker.pending).first.err = NoErr
    /\ Head(broker.pending).first.index # EmptyIndex
    /\ indexer["subscriber"].pc = "build"
    /\ indexer["subscriber"].next > Len(indexer["subscriber"].comicsInfo)

\* ------------------------------------------------------------------ C37

\* Update has received every result and has a batch to hand to db.Add.
HandsBatch(c) ==
    /\ c.op = "Update"
    /\ c.pc = "collect"
    /\ c.received = c.jobCount
    /\ c.comics # <<>>

\* C37: every entry of the batch Update hands to the store has an id that
\* Update submitted as a job, an id of 1..N that was not in the catalog when
\* Update read the ids, and no id occurs twice in the batch, whatever num
\* the responses of the upstream carry.
C37_BatchIdsAreJobs ==
    \A p \in Callers :
        HandsBatch(call[p]) =>
            LET batch == call[p].comics
            IN  /\ \A i \in 1..Len(batch) :
                    /\ batch[i].ID \in call[p].submitted
                    /\ batch[i].ID \in 1..call[p].lastID
                    /\ batch[i].ID \notin call[p].exists
                /\ \A i, j \in 1..Len(batch) : batch[i].ID = batch[j].ID => i = j

\* ------------------------------------------------------------------ C38

\* The rows of the table, in one order.
RowsIn(table) ==
    CHOOSE rows \in Enumerations({ [ID |-> id, URL |-> table[id].url, Words |-> table[id].words] :
                                     id \in DOMAIN table }) : TRUE

\* No entry of the table has a word twice.
WordsDistinct(table) ==
    \A id \in DOMAIN table :
        Len(table[id].words) = Cardinality(Range(table[id].words))

\* The entries of the table with a word among the keywords.
Matches(table, keywords) ==
    {id \in DOMAIN table : Range(table[id].words) \cap Range(keywords) # {}}

\* What Search can return for the keywords over the table.
SearchResults(table, keywords, limit) ==
    UNION { rankedSearch(reply.rows, Range(keywords), limit) :
              reply \in {r \in GetAllComicsInfo(table) : r.err = NoErr} }

\* What ISearch can return for the keywords over the index and the table.
ISearchResults(idx, table, keywords, limit) ==
    UNION { rankedByScore(idx, keywords, reply.rows, limit) :
              reply \in {r \in GetComicsByIds(table, uniqueIDs(idx, keywords)) :
                           r.err = NoErr} }

\* The entries of a result are in the order of their key, largest first.
Descending(result, key) ==
    \A i, j \in 1..Len(result) : i < j => key[result[i].ID] >= key[result[j].ID]

\* The index is the inversion of the catalog.
IndexIsCurrent == IsInversion(index, RowsIn(comics))

\* C38: when the index is the inversion of the catalog and no entry has a
\* word twice, then for every phrase and every limit that is not smaller
\* than the number of matching entries Search and ISearch return the same
\* set of ids, the matching entries, the ISearch score of each equals the
\* number of matches Search counts for it, and both return the entries in
\* descending order of that number.
C38_SearchAndISearchAgree ==
    (IndexIsCurrent /\ WordsDistinct(comics)) =>
        \A phrase \in Phrases, limit \in Limits :
            LET keywords == Norm(phrase)
                matching == Matches(comics, keywords)
                count == [id \in DOMAIN comics |->
                            matched(comics[id].words, Range(keywords))]
            IN  (~Refused(phrase, limit) /\ limit >= Cardinality(matching)) =>
                    /\ \A id \in DOMAIN comics : scores(index, keywords, id) = count[id]
                    /\ \A a \in SearchResults(comics, keywords, limit) :
                        /\ {a[i].ID : i \in 1..Len(a)} = matching
                        /\ Descending(a, count)
                    /\ \A b \in ISearchResults(index, comics, keywords, limit) :
                        /\ {b[i].ID : i \in 1..Len(b)} = matching
                        /\ Descending(b, count)

\* An ISearch has returned two entries of different scores, for a phrase of
\* two keywords, from an index that is the inversion of the catalog.
C38_Witness ==
    \E s \in Searchers :
        /\ IndexIsCurrent
        /\ search[s].op = "ISearch"
        /\ search[s].pc = "done"
        /\ search[s].err = NoErr
        /\ Len(search[s].keywords) = 2
        /\ Len(search[s].comics) = 2
        /\ scores(index, search[s].keywords, search[s].comics[1].ID)
             > scores(index, search[s].keywords, search[s].comics[2].ID)

\* ------------------------------------------------------------------ C39

\* Update and Drop are not running, no message is with the subscription
\* (none waits and none is being handled), no read of the store by
\* UpdateIndex has failed, and the search service serves.
Settled ==
    /\ \A p \in Callers : call[p].pc = "idle"
    /\ broker.pending = <<>>
    /\ \A u \in Indexers : indexer[u].err = NoErr
    /\ service = "serving"

\* What a reader of the index finds: whenever no writer holds the lock, the
\* index is the inversion of the catalog.
ReadersFindCatalog == lock.writer = "none" => IndexIsCurrent

\* C39: whatever events were lost and whatever publish failed, once Update
\* and Drop have stopped, no event is undelivered and the reads of the store
\* succeed, the ticks of the scheduler bring the index to the inversion of
\* the catalog, and from then on it is the inversion whenever UpdateIndex
\* does not hold the write lock to rebuild it.
C39_IndexConverges == (<>[]Settled) => (<>[]ReadersFindCatalog)

\* An UpdateIndex called on a tick is about to return, with nothing from
\* the update service under way or waiting; it has made the index the
\* inversion of a catalog whose keywords the index lacked before it.
C39_Witness ==
    /\ Settled
    /\ indexer["scheduler"].from = "tick"
    /\ indexer["scheduler"].pc = "build"
    /\ indexer["scheduler"].next > Len(indexer["scheduler"].comicsInfo)
    /\ indexer["subscriber"].pc = "idle"
    /\ comics # EmptyComics
    /\ IndexIsCurrent
    /\ DOMAIN index \ indexer["scheduler"].had # {}

\* ------------------------------------------------------------------ C40

\* Writer u is in the part of UpdateIndex or ResetIndex that follows
\* s.lock.Lock().
InWrite(u) == indexer[u].pc \in {"read", "clear", "build", "return"}

\* Client s is in the part of ISearch that follows s.lock.RLock().
InRead(s) == search[s].op = "ISearch" /\ search[s].pc \in {"norm", "lookup", "done"}

\* C40: the index lock never deadlocks.  A caller holds the lock exactly
\* from its Lock or RLock to its return, whatever it returns, so that none
\* asks for the lock while it holds it and none keeps it after its return;
\* a writer holds it alone; and while the process runs every UpdateIndex,
\* ResetIndex (called by the scheduler or by HandleEvent) and ISearch that
\* asks for the lock obtains it.
C40_IndexLockNeverDeadlocks ==
    /\ [](/\ \A u \in Indexers : (lock.writer = u) <=> InWrite(u)
          /\ \A s \in Searchers : (s \in lock.readers) <=> InRead(s)
          /\ lock.writer \in Indexers \cup {"none"}
          /\ lock.readers \subseteq Searchers
          /\ lock.writer # "none" => lock.readers = {})
    /\ \A u \in Indexers :
        (indexer[u].pc = "lock") ~> (lock.writer = u \/ service = "exited")
    /\ \A s \in Searchers :
        (search[s].pc = "rlock") ~> (s \in lock.readers)

\* The callback waits for the write lock in HandleEvent while the scheduler
\* holds it in an UpdateIndex whose read of the store failed, and an ISearch
\* waits for the read lock.
C40_Witness ==
    /\ indexer["subscriber"].pc = "lock"
    /\ indexer["scheduler"].pc = "return"
    /\ indexer["scheduler"].err # NoErr
    /\ indexer["scheduler"].from = "tick"
    /\ lock.writer = "scheduler"
    /\ \E s \in Searchers : search[s].pc = "rlock"

====
